---- MODULE Spec2Model ----
(***************************************************************************)
(* The reconciliation core of xiilib: the Flask charm's event handlers,    *)
(* FlaskApp.restart, GunicornWebserver.update_config and                   *)
(* DatabaseMigration.run, acting on one workload container; the Django     *)
(* library's RunOnce, called on a Django workload container; and the       *)
(* Django library's SecretStorage on the units of one application.         *)
(*                                                                         *)
(* One action is one event dispatched to the charm: the charm object is    *)
(* built (CharmState.from_charm reads the configuration and the secret     *)
(* storage), then the observers of the event run to completion.            *)
(***************************************************************************)
EXTENDS Integers, Sequences, FiniteSets, TLC

VARIABLES
    framework,    \* which library the unit runs: "flask" or "django"
    config,       \* the charm configuration set by the operator
    secret,       \* peer relation "secret-storage": application data of flask_secret_key
    is_leader,    \* unit.is_leader()
    container,    \* the flask-app workload container as Pebble shows it
    workload,     \* whether the migration script and --check-config exit 0 when run
    status,       \* unit.status and app.status as this unit last wrote them
    last,         \* what the most recent event dispatch did
    peer,         \* peer relation "secret-storage" of a Django application and
                  \* its units: who leads, who has joined, the application data
    databases     \* the database requirers of the charm and their relation data

vars == <<framework, config, secret, is_leader, container, workload, status, last,
          peer, databases>>

----------------------------------------------------------------------------
(* Bounds and value sets *)

\* Python None, as a string so that it compares with every str value
None == "<None>"

\* values of the database_migration_script option (relative to /flask/app)
Scripts == {"migrate.sh", "migrate-2.sh"}
ScriptOptions == {None, ""} \cup Scripts

\* secrets.token_urlsafe returns one of NumKeys values
NumKeys == 1
Keys == {<<"key-1", "key-2", "key-3">>[i] : i \in 1..NumKeys}
NoRelation == "<no-relation>"

\* the configuration: no webserver_* option is set
Configs == [database_migration_script : ScriptOptions]

\* other values of the option: paths with "." and "..", absolute paths, paths
\* into /flask/state, /etc, /flask/app2 and /flask itself
PathScripts ==
    {"sub/../m.sh", "./m.sh", "../app/m.sh", "/flask/app/m.sh",
     "../state/m.sh", "../../etc/m.sh", "/etc/m.sh", "../app2/m.sh",
     "..", "../application.sh"}
ScriptNames == Scripts \cup PathScripts
PathConfigs == [database_migration_script : ScriptNames]

\* the webserver_* options and the integers the operator sets them to
NumSettingValues == 2
SettingValues == {<<1, 90061, -1, 172800>>[i] : i \in 1..NumSettingValues}
WebserverOptions ==
    {"webserver_workers", "webserver_threads", "webserver_keepalive",
     "webserver_timeout"}

\* the configurations with any of the webserver_* options set
WebserverConfigs ==
    UNION { { [o \in set \cup {"database_migration_script"} |->
                 IF o = "database_migration_script" THEN None ELSE f[o]]
              : f \in [set -> SettingValues] }
            : set \in SUBSET WebserverOptions }

\* the options of a charm built with the library and the values the operator
\* sets them to: built-in Flask settings, valid and invalid, options of the
\* charm's own (env and secret_key are named as built-in settings are) and a
\* webserver setting
OptionValues ==
    [flask_env : {[type |-> "str", value |-> v] : v \in {"", "prod"}},
     flask_debug : {[type |-> "bool", value |-> TRUE]},
     flask_secret_key : {[type |-> "str", value |-> v] : v \in {"", "user-key"}},
     flask_permanent_session_lifetime : {[type |-> "int", value |-> v] : v \in {0, 3600}},
     flask_preferred_url_scheme :
         {[type |-> "str", value |-> v] : v \in {"HTTPS", "http", "tls"}},
     env : {[type |-> "str", value |-> "staging"]},
     secret_key : {[type |-> "str", value |-> "app-key"]},
     foo : {[type |-> "str", value |-> "bar"], [type |-> "int", value |-> 7],
            [type |-> "bool", value |-> FALSE]},
     webserver_workers : {1}]

\* the configurations with any of these options set
UserConfigs ==
    { [o \in set \cup {"database_migration_script"} |->
          IF o = "database_migration_script" THEN None ELSE d[o]] :
          d \in OptionValues,
          set \in SUBSET {"flask_env", "flask_debug", "flask_secret_key",
                          "flask_permanent_session_lifetime",
                          "flask_preferred_url_scheme", "env", "secret_key", "foo",
                          "webserver_workers"} }

\* the interfaces the charm has a database requirer for
Interfaces == {"postgresql", "redis"}

\* the text of endpoints names up to MaxEndpoints hosts, separated by commas;
\* it is kept as its pieces, "," being a piece of its own
MaxEndpoints == 2
Hosts == <<"h1:5432", "h2:5432", "h3:5432">>

RECURSIVE EndpointList(_)
EndpointList(n) ==
    IF n = 0 THEN <<>>
    ELSE IF n = 1 THEN <<Hosts[1]>>
    ELSE EndpointList(n - 1) \o <<",", Hosts[n]>>

\* the data of a database relation: any of the fields may be missing, and
\* endpoints and username may be empty
RelationFields ==
    [endpoints : {EndpointList(n) : n \in 0..MaxEndpoints},
     username : {"", "u"},
     password : {"p"},
     database : {"db"}]
RelationData ==
    { [f \in fields |-> d[f]] :
          d \in RelationFields,
          fields \in SUBSET {"endpoints", "username", "password", "database"} }

\* a requirer: the data of its relations (at most one) and the database name
\* the charm asks for
Requirers ==
    [relation_data : {<<>>} \cup {<<d>> : d \in RelationData},
     database : {"flask-app"}]

\* the charm's requirers, one for each interface of its metadata
DatabaseRequirers == [Interfaces -> Requirers]
NoRelationData == [i \in Interfaces |-> [relation_data |-> <<>>, database |-> "flask-app"]]

----------------------------------------------------------------------------
(* xiilib/flask/constants.py *)

FLASK_SERVICE_NAME == "flask"
FLASK_APP_DIR == "/flask/app"
StatusFile == "/flask/state/database-migration-status"
CompletedScriptFile == "/flask/state/completed-database-migration"
ConfigPath == "/flask/gunicorn.conf.py"
LogDir == "/var/log/flask"

\* seconds in a day, the unit datetime.timedelta normalises to
SecondsPerDay == 86400

----------------------------------------------------------------------------
(* Exceptions: <<>> is "nothing raised", else <<class, message...>> *)

NoError == <<>>
CharmConfigInvalidError(msg) == <<"CharmConfigInvalidError">> \o msg
ConnectionError == <<"ConnectionError">>
IsConfigInvalid(e) == e # NoError /\ Head(e) = "CharmConfigInvalidError"

----------------------------------------------------------------------------
(* The container: Pebble's files, layers, plan and services.  fs is a      *)
(* function from the paths that exist to their content.                    *)

NoLayer == <<>>

FreshContainer ==
    [can_connect |-> FALSE,
     fs |-> [p \in {} |-> ""],
     layer |-> NoLayer,
     plan |-> NoLayer,
     running |-> FALSE]

Exists(c, path) == path \in DOMAIN c.fs
Pull(c, path) == c.fs[path]
Push(c, path, content) ==
    [c EXCEPT !.fs = [p \in DOMAIN c.fs \cup {path} |->
                        IF p = path THEN content ELSE c.fs[p]]]
MakeDir(c, path) == Push(c, path, "<dir>")
AddLayer(c, layer) == [c EXCEPT !.layer = <<layer>>]
Replan(c) == [c EXCEPT !.plan = c.layer, !.running = (c.layer # NoLayer)]

\* the operations a handler performed on the container, in order
OpPush(path) == <<"push", path>>
OpExec(kind, arg) == <<"exec", kind, arg>>
OpMakeDir(path) == <<"make_dir", path>>
OpAddLayer == <<"add_layer", "flask">>
OpSignal == <<"send_signal", "SIGHUP">>
OpReplan == <<"replan">>

\* what a call returns: the container after it, what it did, what it raised
Result(c, ops, raised) == [c |-> c, ops |-> ops, raised |-> raised]

\* "x = v; F(x)": the value of a statement, computed once, handed to the rest
Then(v, F(_)) == CHOOSE y \in {F(x) : x \in {v}} : TRUE

----------------------------------------------------------------------------
(* Secret storage (peer relation data of the application) *)

is_initialized(sec) == sec \notin {NoRelation, ""}

\* SecretStorage._set_initial_values: the leader fills in a missing key
_set_initial_values(sec, leader, generated) ==
    IF ~leader THEN sec
    ELSE IF sec = "" THEN generated
    ELSE sec

----------------------------------------------------------------------------
(* xiilib/databases.py *)

\* str.upper() of the names of the model
upper(s) ==
    CASE s = "redis" -> "REDIS"
      [] s = "postgresql" -> "POSTGRESQL"
      [] s = "env" -> "ENV"
      [] s = "debug" -> "DEBUG"
      [] s = "secret_key" -> "SECRET_KEY"
      [] s = "permanent_session_lifetime" -> "PERMANENT_SESSION_LIFETIME"
      [] s = "application_root" -> "APPLICATION_ROOT"
      [] s = "session_cookie_secure" -> "SESSION_COOKIE_SECURE"
      [] s = "preferred_url_scheme" -> "PREFERRED_URL_SCHEME"
      [] s = "foo" -> "FOO"
      [] s = "http" -> "HTTP"
      [] s = "HTTPS" -> "HTTPS"
      [] s = "tls" -> "TLS"

\* the text of a str kept as pieces, and str.split(",")[0]
RECURSIVE Text(_)
Text(pieces) == IF pieces = <<>> THEN "" ELSE Head(pieces) \o Text(Tail(pieces))

RECURSIVE FirstField(_)
FirstField(pieces) ==
    IF pieces = <<>> \/ Head(pieces) = "," THEN <<>>
    ELSE <<Head(pieces)>> \o FirstField(Tail(pieces))

\* the test as it would be if it looked for the keys only
WellFormedPresent(data) ==
    {"endpoints", "username", "password"} \subseteq DOMAIN data

\* all(data.get(key) for key in ("endpoints", "username", "password"))
WellFormed(data) ==
    /\ "endpoints" \in DOMAIN data /\ data.endpoints # <<>>
    /\ "username" \in DOMAIN data /\ data.username # ""
    /\ "password" \in DOMAIN data /\ data.password # ""

\* the interfaces get_uris makes an entry for
Served(database_requirers) ==
    {i \in DOMAIN database_requirers :
        /\ database_requirers[i].relation_data # <<>>
        /\ WellFormed(database_requirers[i].relation_data[1])}

\* the URI as it would be with the whole text of endpoints
DatabaseURIAllEndpoints(interface_name, db_requires) ==
    Then(db_requires.relation_data[1], LAMBDA data :
    Then(IF "database" \in DOMAIN data THEN data.database ELSE db_requires.database,
         LAMBDA database_name :
        interface_name \o "://" \o data.username \o ":" \o data.password \o "@"
            \o Text(data.endpoints) \o "/" \o database_name))

DatabaseURI(interface_name, db_requires) ==
    Then(db_requires.relation_data[1], LAMBDA data :
    Then(IF "database" \in DOMAIN data THEN data.database ELSE db_requires.database,
         LAMBDA database_name :
        interface_name \o "://" \o data.username \o ":" \o data.password \o "@"
            \o Text(FirstField(data.endpoints)) \o "/" \o database_name))

\* get_uris: an entry for every requirer with well-formed relation data
get_uris(database_requirers) ==
    Then(Served(database_requirers), LAMBDA served :
        [name \in {upper(i) \o "_DB_CONNECT_STRING" : i \in served} |->
            DatabaseURI(CHOOSE i \in served : upper(i) \o "_DB_CONNECT_STRING" = name,
                        database_requirers[CHOOSE i \in served :
                                               upper(i) \o "_DB_CONNECT_STRING" = name])])

----------------------------------------------------------------------------
(* xiilib/flask/charm_state.py *)

\* a str as the sequence of its characters, for the paths of the model
Characters(s) ==
    CASE s = "migrate.sh" ->
             <<"m", "i", "g", "r", "a", "t", "e", ".", "s", "h">>
      [] s = "migrate-2.sh" ->
             <<"m", "i", "g", "r", "a", "t", "e", "-", "2", ".", "s", "h">>
      [] s = "sub/../m.sh" ->
             <<"s", "u", "b", "/", ".", ".", "/", "m", ".", "s", "h">>
      [] s = "./m.sh" ->
             <<".", "/", "m", ".", "s", "h">>
      [] s = "../app/m.sh" ->
             <<".", ".", "/", "a", "p", "p", "/", "m", ".", "s", "h">>
      [] s = "/flask/app/m.sh" ->
             <<"/", "f", "l", "a", "s", "k", "/", "a", "p", "p", "/", "m", ".", "s", "h">>
      [] s = "../state/m.sh" ->
             <<".", ".", "/", "s", "t", "a", "t", "e", "/", "m", ".", "s", "h">>
      [] s = "../../etc/m.sh" ->
             <<".", ".", "/", ".", ".", "/", "e", "t", "c", "/", "m", ".", "s", "h">>
      [] s = "/etc/m.sh" ->
             <<"/", "e", "t", "c", "/", "m", ".", "s", "h">>
      [] s = "../app2/m.sh" ->
             <<".", ".", "/", "a", "p", "p", "2", "/", "m", ".", "s", "h">>
      [] s = ".." ->
             <<".", ".">>
      [] s = "../application.sh" ->
             <<".", ".", "/", "a", "p", "p", "l", "i", "c", "a", "t", "i", "o", "n", ".", "s", "h">>
      [] s = "/flask/app" ->
             <<"/", "f", "l", "a", "s", "k", "/", "a", "p", "p">>

\* str.split("/")
RECURSIVE SplitSlash(_)
SplitSlash(s) ==
    IF s = <<>> THEN << <<>> >>
    ELSE Then(SplitSlash(Tail(s)), LAMBDA rest :
             IF Head(s) = "/" THEN << <<>> >> \o rest
             ELSE << <<Head(s)>> \o Head(rest) >> \o Tail(rest))

\* "/".join(comps)
RECURSIVE JoinSlash(_)
JoinSlash(comps) ==
    IF comps = <<>> THEN <<>>
    ELSE IF Len(comps) = 1 THEN Head(comps)
    ELSE Head(comps) \o <<"/">> \o JoinSlash(Tail(comps))

\* the loop of posixpath.normpath over the components; new_comps is the result so far
RECURSIVE NormComps(_, _, _)
NormComps(comps, new_comps, initial_slashes) ==
    IF comps = <<>> THEN new_comps
    ELSE IF Head(comps) \in {<<>>, <<".">>}
    THEN NormComps(Tail(comps), new_comps, initial_slashes)
    ELSE IF \/ Head(comps) # <<".", ".">>
            \/ (initial_slashes = 0 /\ new_comps = <<>>)
            \/ (new_comps # <<>> /\ new_comps[Len(new_comps)] = <<".", ".">>)
    THEN NormComps(Tail(comps), new_comps \o <<Head(comps)>>, initial_slashes)
    ELSE IF new_comps # <<>>
    THEN NormComps(Tail(comps), SubSeq(new_comps, 1, Len(new_comps) - 1), initial_slashes)
    ELSE NormComps(Tail(comps), new_comps, initial_slashes)

\* posixpath.normpath of a path that does not begin with two slashes
normpath(path) ==
    IF path = <<>> THEN <<".">>
    ELSE Then(IF Head(path) = "/" THEN 1 ELSE 0, LAMBDA initial_slashes :
         Then(JoinSlash(NormComps(SplitSlash(path), <<>>, initial_slashes)), LAMBDA joined :
             IF initial_slashes = 1 THEN <<"/">> \o joined
             ELSE IF joined = <<>> THEN <<".">>
             ELSE joined))

\* pathlib's dir / other: an absolute other replaces dir
PathJoin(dir, other) ==
    IF other # <<>> /\ Head(other) = "/" THEN other ELSE dir \o <<"/">> \o other

\* str.startswith
StartsWith(s, prefix) ==
    Len(prefix) <= Len(s) /\ SubSeq(s, 1, Len(prefix)) = prefix

\* the test of from_charm as it would be if it compared path components
InsideByComponents(path) ==
    Then(SplitSlash(path), LAMBDA comps :
        /\ Len(comps) >= 3
        /\ SubSeq(comps, 1, 3) = SplitSlash(Characters(FLASK_APP_DIR)))

\* lines 216-217 of from_charm for the scripts of the model: the normalized
\* path and whether it starts with str(FLASK_APP_DIR)
ScriptPaths ==
    [script \in ScriptNames |->
        Then(normpath(PathJoin(Characters(FLASK_APP_DIR), Characters(script))),
             LAMBDA path :
                 [path |-> Text(path),
                  inside |-> StartsWith(path, Characters(FLASK_APP_DIR))])]

NotInsideAppDir ==
    CharmConfigInvalidError(<<"database_migration_script is not inside /flask/app">>)

\* os.path.normpath(FLASK_APP_DIR / script) for the scripts of the model
NormPath(script) == ScriptPaths[script].path

\* Python values, told apart by their type
PyNone == [type |-> "NoneType", value |-> <<>>]
PyInt(n) == [type |-> "int", value |-> n]
PyBool(b) == [type |-> "bool", value |-> b]
PyStr(text) == [type |-> "str", value |-> text]

\* charm.config.get(option) of an integer option: None when it is not set
ConfigGet(cfg, option) ==
    IF option \in DOMAIN cfg THEN PyInt(cfg[option]) ELSE PyNone

KNOWN_CHARM_CONFIG ==
    {"database_migration_script", "flask_application_root", "flask_debug",
     "flask_env", "flask_permanent_session_lifetime", "flask_preferred_url_scheme",
     "flask_secret_key", "flask_session_cookie_secure", "webserver_keepalive",
     "webserver_threads", "webserver_timeout", "webserver_workers",
     "webserver_wsgi_path"}

\* k.removeprefix("flask_") and k.startswith("flask_") of the names of the model
removeprefix(k) ==
    CASE k = "flask_application_root" -> "application_root"
      [] k = "flask_debug" -> "debug"
      [] k = "flask_env" -> "env"
      [] k = "flask_permanent_session_lifetime" -> "permanent_session_lifetime"
      [] k = "flask_preferred_url_scheme" -> "preferred_url_scheme"
      [] k = "flask_secret_key" -> "secret_key"
      [] k = "flask_session_cookie_secure" -> "session_cookie_secure"
      [] OTHER -> k
startswith(k) == removeprefix(k) # k

\* FlaskConfig: whether a value passes the validation of its field.  Juju
\* hands over values of the option's declared type
FieldIsValid(field, v) ==
    CASE field \in {"env", "secret_key", "application_root"} -> v.value # ""
      [] field = "permanent_session_lifetime" -> v.value > 0
      [] field = "preferred_url_scheme" -> upper(v.value) \in {"HTTP", "HTTPS"}
      [] OTHER -> TRUE

\* the fields named by exc.errors(), in the order of the model
FieldOrder ==
    <<"env", "debug", "secret_key", "permanent_session_lifetime",
      "application_root", "session_cookie_secure", "preferred_url_scheme">>

RECURSIVE error_fields(_, _)
error_fields(flask_config, i) ==
    IF i > Len(FieldOrder) THEN <<>>
    ELSE IF FieldOrder[i] \in DOMAIN flask_config
            /\ ~FieldIsValid(FieldOrder[i], flask_config[FieldOrder[i]])
    THEN <<"flask_" \o FieldOrder[i]>> \o error_fields(flask_config, i + 1)
    ELSE error_fields(flask_config, i + 1)

\* from_charm as it would be if it reported the first invalid field only
from_charm_first_error(cfg, sec, database_uris) ==
    Then([k \in {removeprefix(o) : o \in {o \in DOMAIN cfg \cap KNOWN_CHARM_CONFIG :
                                            startswith(o)}} |-> cfg["flask_" \o k]],
         LAMBDA flask_config :
    [raised |-> IF error_fields(flask_config, 1) # <<>>
                THEN CharmConfigInvalidError(
                         <<"invalid configuration:", Head(error_fields(flask_config, 1))>>)
                ELSE IF cfg.database_migration_script \notin {None, ""}
                        /\ ~ScriptPaths[cfg.database_migration_script].inside
                THEN NotInsideAppDir
                ELSE NoError,
     flask_config |-> flask_config,
     app_config |-> [k \in DOMAIN cfg \ KNOWN_CHARM_CONFIG |-> cfg[k]],
     database_migration_script |->
        IF cfg.database_migration_script \in {None, ""}
        THEN cfg.database_migration_script
        ELSE NormPath(cfg.database_migration_script),
     webserver_workers |-> ConfigGet(cfg, "webserver_workers"),
     webserver_threads |-> ConfigGet(cfg, "webserver_threads"),
     webserver_keepalive |-> ConfigGet(cfg, "webserver_keepalive"),
     webserver_timeout |-> ConfigGet(cfg, "webserver_timeout"),
     database_uris |-> database_uris,
     _flask_secret_key |-> IF is_initialized(sec) THEN sec ELSE None,
     is_secret_storage_ready |-> is_initialized(sec)])

\* CharmState.from_charm.  raised is the exception it raises, if any; the
\* other fields describe the state it returns otherwise.  valid_flask_config
\* .dict() has the scheme in upper case
from_charm(cfg, sec, database_uris) ==
    Then([k \in {removeprefix(o) : o \in {o \in DOMAIN cfg \cap KNOWN_CHARM_CONFIG :
                                            startswith(o)}} |-> cfg["flask_" \o k]],
         LAMBDA flask_config :
    [raised |-> IF error_fields(flask_config, 1) # <<>>
                THEN CharmConfigInvalidError(
                         <<"invalid configuration:">> \o error_fields(flask_config, 1))
                ELSE IF cfg.database_migration_script \notin {None, ""}
                        /\ ~ScriptPaths[cfg.database_migration_script].inside
                THEN NotInsideAppDir
                ELSE NoError,
     flask_config |-> [k \in DOMAIN flask_config |->
                          IF k = "preferred_url_scheme"
                          THEN PyStr(upper(flask_config[k].value))
                          ELSE flask_config[k]],
     app_config |-> [k \in DOMAIN cfg \ KNOWN_CHARM_CONFIG |-> cfg[k]],
     database_migration_script |->
        IF cfg.database_migration_script \in {None, ""}
        THEN cfg.database_migration_script
        ELSE NormPath(cfg.database_migration_script),
     webserver_workers |-> ConfigGet(cfg, "webserver_workers"),
     webserver_threads |-> ConfigGet(cfg, "webserver_threads"),
     webserver_keepalive |-> ConfigGet(cfg, "webserver_keepalive"),
     webserver_timeout |-> ConfigGet(cfg, "webserver_timeout"),
     database_uris |-> database_uris,
     _flask_secret_key |-> IF is_initialized(sec) THEN sec ELSE None,
     is_secret_storage_ready |-> is_initialized(sec)])

\* the property CharmState.flask_secret_key: what it raises or returns
SecretKeyNotReady ==
    <<"RuntimeError", "access flask secret key before secret storage is ready">>

flask_secret_key_always(cs) == [raised |-> NoError, value |-> cs._flask_secret_key]

flask_secret_key(cs) ==
    IF cs._flask_secret_key = None
    THEN [raised |-> SecretKeyNotReady, value |-> None]
    ELSE [raised |-> NoError, value |-> cs._flask_secret_key]

\* datetime.timedelta(seconds=n), normalised as Python keeps it, and
\* timedelta.total_seconds()
Timedelta(n) ==
    [type |-> "timedelta",
     value |-> [days |-> n \div SecondsPerDay, seconds |-> n % SecondsPerDay]]
total_seconds(td) == td.value.days * SecondsPerDay + td.value.seconds

\* CharmState.webserver_config: the settings in the order of the dict
webserver_config(cs) ==
    << <<"workers", cs.webserver_workers>>,
       <<"threads", cs.webserver_threads>>,
       <<"keepalive", IF cs.webserver_keepalive.type # "NoneType"
                      THEN Timedelta(cs.webserver_keepalive.value) ELSE PyNone>>,
       <<"timeout", IF cs.webserver_timeout.type # "NoneType"
                    THEN Timedelta(cs.webserver_timeout.value) ELSE PyNone>> >>

----
(* xiilib/database_migration.py *)

\* Python truthiness of an optional string
Truthy(s) == s \notin {None, ""}

\* get_status as it would be if a missing status file meant COMPLETED
get_status_missing_is_completed(c) ==
    IF ~Exists(c, StatusFile) THEN "COMPLETED" ELSE Pull(c, StatusFile)

get_status(c) ==
    IF ~Exists(c, StatusFile) THEN "PENDING" ELSE Pull(c, StatusFile)

_set_status(c, st) == Push(c, StatusFile, st)

get_completed_script(c) ==
    IF Exists(c, CompletedScriptFile) THEN Pull(c, CompletedScriptFile) ELSE None

\* _set_completed_script as it would be if it recorded nothing
_set_completed_script_skipped(c, script_path) == c

_set_completed_script(c, script_path) == Push(c, CompletedScriptFile, script_path)

MigrationFailed(script) == CharmConfigInvalidError(<<"database migration script failed">>)

\* run as it would be without the guard on the persisted status
run_unguarded(c, script, exit0) ==
    IF ~Truthy(script) THEN Result(c, <<>>, NoError)
    ELSE IF exit0
    THEN Result(_set_completed_script(_set_status(c, "COMPLETED"), script),
                <<OpExec("migration", script), OpPush(StatusFile),
                  OpPush(CompletedScriptFile)>>,
                NoError)
    ELSE Result(_set_status(c, "FAILED"),
                <<OpExec("migration", script), OpPush(StatusFile)>>,
                MigrationFailed(script))

\* run as it would be if the ExecError were logged and not raised again
run_swallowing(c, script, exit0) ==
    IF get_status(c) \notin {"PENDING", "FAILED"} THEN Result(c, <<>>, NoError)
    ELSE IF ~Truthy(script) THEN Result(c, <<>>, NoError)
    ELSE IF exit0
    THEN Result(_set_completed_script(_set_status(c, "COMPLETED"), script),
                <<OpExec("migration", script), OpPush(StatusFile),
                  OpPush(CompletedScriptFile)>>,
                NoError)
    ELSE Result(_set_status(c, "FAILED"),
                <<OpExec("migration", script), OpPush(StatusFile)>>,
                NoError)

\* run as it would be if a failure reset the status to PENDING for the retry
run_resetting(c, script, exit0) ==
    IF get_status(c) \notin {"PENDING", "FAILED"} THEN Result(c, <<>>, NoError)
    ELSE IF ~Truthy(script) THEN Result(c, <<>>, NoError)
    ELSE IF exit0
    THEN Result(_set_completed_script(_set_status(c, "COMPLETED"), script),
                <<OpExec("migration", script), OpPush(StatusFile),
                  OpPush(CompletedScriptFile)>>,
                NoError)
    ELSE Result(_set_status(c, "PENDING"),
                <<OpExec("migration", script), OpPush(StatusFile)>>,
                MigrationFailed(script))

\* run as it would be if a failed script were executed a second time in the call
run_retrying(c, script, exit0) ==
    IF get_status(c) \notin {"PENDING", "FAILED"} THEN Result(c, <<>>, NoError)
    ELSE IF ~Truthy(script) THEN Result(c, <<>>, NoError)
    ELSE IF exit0
    THEN Result(_set_completed_script(_set_status(c, "COMPLETED"), script),
                <<OpExec("migration", script), OpPush(StatusFile),
                  OpPush(CompletedScriptFile)>>,
                NoError)
    ELSE Result(_set_status(c, "FAILED"),
                <<OpExec("migration", script), OpPush(StatusFile),
                  OpExec("migration", script), OpPush(StatusFile)>>,
                MigrationFailed(script))

\* DatabaseMigration.run; exit0 is whether the script exits 0 in the workload
run(c, script, exit0) ==
    IF get_status(c) \notin {"PENDING", "FAILED"} THEN Result(c, <<>>, NoError)
    ELSE IF ~Truthy(script) THEN Result(c, <<>>, NoError)
    ELSE IF exit0
    THEN Result(_set_completed_script(_set_status(c, "COMPLETED"), script),
                <<OpExec("migration", script), OpPush(StatusFile),
                  OpPush(CompletedScriptFile)>>,
                NoError)
    ELSE Result(_set_status(c, "FAILED"),
                <<OpExec("migration", script), OpPush(StatusFile)>>,
                MigrationFailed(script))

----------------------------------------------------------------------------
(* xiilib/django/secret_storage.py, on an application of several units.    *)
(* The application data of the peer relation is a function from the keys   *)
(* that are set to their values.                                           *)

\* the units of the application
NumUnits == 2
Units == 1..NumUnits

\* the keys of initial_values: a later revision of the charm declares more
MaxDeclaredKeys == 2
DeclarableKeys == <<"django_secret_key", "second_key", "third_key">>

NoData == [k \in {} |-> ""]

\* leaders: the units Juju has given leadership; declared: the keys of
\* initial_values; initial_writer: the unit that wrote a key's initial value
NoPeer ==
    [exists |-> FALSE, data |-> NoData, joined |-> {}, leaders |-> {},
     declared |-> {DeclarableKeys[1]}, initial_writer |-> [k \in {} |-> 0]]

\* relation_data.get(key) and relation_data[key] = value
RelationGet(data, key) == IF key \in DOMAIN data THEN data[key] ELSE None
RelationSet(data, key, value) ==
    IF value = "" THEN [k \in DOMAIN data \ {key} |-> data[k]]
    ELSE [k \in DOMAIN data \cup {key} |-> IF k = key THEN value ELSE data[k]]

RuntimeError == <<"RuntimeError", "SecretStorage is not initialized">>

\* _set_initial_values as it would be without the test of the stored value
SecretStorage_set_initial_values_overwriting(p, unit, initial_values) ==
    IF unit \notin p.leaders THEN [data |-> p.data, written |-> {}]
    ELSE [data |-> [k \in DOMAIN p.data \cup DOMAIN initial_values |->
                       IF k \in DOMAIN initial_values THEN initial_values[k]
                       ELSE p.data[k]],
          written |-> DOMAIN initial_values]

\* SecretStorage._set_initial_values on a unit; initial_values are the values
\* the unit generated when its charm was built.  written: the keys it set
SecretStorage_set_initial_values(p, unit, initial_values) ==
    IF unit \notin p.leaders THEN [data |-> p.data, written |-> {}]
    ELSE Then({k \in DOMAIN initial_values : ~Truthy(RelationGet(p.data, k))},
              LAMBDA missing :
                  [data |-> [k \in DOMAIN p.data \cup missing |->
                                IF k \in missing THEN initial_values[k]
                                ELSE p.data[k]],
                   written |-> missing])

\* is_initialized as it would be with any in the place of all
SecretStorage_is_initialized_any(p) ==
    IF ~p.exists THEN FALSE
    ELSE \E k \in p.declared : Truthy(RelationGet(p.data, k))

\* SecretStorage.is_initialized
SecretStorage_is_initialized(p) ==
    IF ~p.exists THEN FALSE
    ELSE \A k \in p.declared : Truthy(RelationGet(p.data, k))

\* set_secret as it would be without the test of is_initialized
set_secret_unchecked(p, key, value) ==
    [data |-> RelationSet(p.data, key, value), raised |-> NoError]

\* set_secret as it would be if it stored an empty value
set_secret_clearing(p, key, value) ==
    IF ~SecretStorage_is_initialized(p)
    THEN [data |-> p.data, raised |-> RuntimeError]
    ELSE [data |-> RelationSet(p.data, key, ""), raised |-> NoError]

\* SecretStorage.set_secret
set_secret(p, key, value) ==
    IF ~SecretStorage_is_initialized(p)
    THEN [data |-> p.data, raised |-> RuntimeError]
    ELSE [data |-> RelationSet(p.data, key, value), raised |-> NoError]

\* SecretStorage.get_secret
get_secret(p, key) ==
    IF ~SecretStorage_is_initialized(p)
    THEN [returned |-> None, raised |-> RuntimeError]
    ELSE [returned |-> p.data[key], raised |-> NoError]

\* what a call on the secret storage did, for the properties to read
StorageCall(event, unit, p, data, written, raised, returned) ==
    [event |-> event, runs |-> <<>>, once |-> <<>>, error |-> raised,
     action |-> <<>>,
     storage |-> << [unit |-> unit,
                     led |-> (unit \in p.leaders),
                     exists |-> p.exists,
                     declared |-> p.declared,
                     initial_writer |-> p.initial_writer,
                     is_initialized |-> SecretStorage_is_initialized(p),
                     data_before |-> p.data,
                     data_after |-> data,
                     written |-> written,
                     returned |-> returned] >>]

----------------------------------------------------------------------------
(* xiilib/webserver.py *)

\* str(int): the decimal text of an integer
IntText(n) == ToString(n)

\* repr(timedelta), the text the setting would get without the conversion
TimedeltaRepr(td) ==
    "datetime.timedelta(days=" \o ToString(td.value.days) \o ", seconds="
        \o ToString(td.value.seconds) \o ")"

\* the five lines every gunicorn.conf.py starts with, as <<name, value>>
FixedLines ==
    <<  <<"bind", "['0.0.0.0:8000']">>,
        <<"chdir", "'/flask/app'">>,
        <<"accesslog", "'/var/log/flask/access.log'">>,
        <<"errorlog", "'/var/log/flask/error.log'">>,
        <<"statsd_host", "'localhost:9125'">> >>

\* the loop of _config over the settings from position i on
RECURSIVE config_entries(_, _)
config_entries(settings, i) ==
    IF i > Len(settings) THEN <<>>
    ELSE IF settings[i][2].type = "NoneType" THEN config_entries(settings, i + 1)
    ELSE << <<settings[i][1],
              IF settings[i][2].type = "int" THEN IntText(settings[i][2].value)
              ELSE IntText(total_seconds(settings[i][2]))>> >>
         \o config_entries(settings, i + 1)

\* the entries of _config if a duration were written as it is
RECURSIVE config_entries_repr(_, _)
config_entries_repr(settings, i) ==
    IF i > Len(settings) THEN <<>>
    ELSE IF settings[i][2].type = "NoneType" THEN config_entries_repr(settings, i + 1)
    ELSE << <<settings[i][1],
              IF settings[i][2].type = "int" THEN IntText(settings[i][2].value)
              ELSE TimedeltaRepr(settings[i][2])>> >>
         \o config_entries_repr(settings, i + 1)

\* _config as it would be without the conversion of durations to seconds
_config_repr(cs) == FixedLines \o config_entries_repr(webserver_config(cs), 1)

\* GunicornWebserver._config: the lines of gunicorn.conf.py, each a pair
\* <<name, value>> for the text "name = value"
_config(cs) == FixedLines \o config_entries(webserver_config(cs), 1)

\* Python objects that update_config compares with ==
PyTextIO(text) == [type |-> "TextIO", value |-> text]
PyEq(a, b) == a.type = b.type /\ a.type = "str" /\ a.value = b.value

_prepare_log_dir(c) ==
    IF Exists(c, LogDir) THEN Result(c, <<>>, NoError)
    ELSE Result(MakeDir(c, LogDir), <<OpMakeDir(LogDir)>>, NoError)

WebserverCheckFailed == CharmConfigInvalidError(<<"Webserver configuration check failed">>)

\* update_config as it would be if it reloaded before the check
update_config_reload_first(c, cs, check0, is_webserver_running) ==
    Then(_prepare_log_dir(c), LAMBDA d :
        LET c1 == Push(d.c, ConfigPath, _config(cs))
            ops1 == d.ops \o <<OpPush(ConfigPath)>>
                    \o (IF is_webserver_running THEN <<OpSignal>> ELSE <<>>)
        IN  IF ~check0
            THEN Result(c1, ops1 \o <<OpExec("check-config", "")>>, WebserverCheckFailed)
            ELSE Result(c1, ops1 \o <<OpExec("check-config", "")>>, NoError))

\* GunicornWebserver.update_config; check0 is whether --check-config exits 0
update_config(c, cs, check0, is_webserver_running) ==
    Then(_prepare_log_dir(c), LAMBDA d :
        LET current_webserver_config ==
                IF Exists(d.c, ConfigPath) THEN PyTextIO(Pull(d.c, ConfigPath)) ELSE PyNone
            c1 == Push(d.c, ConfigPath, _config(cs))
            ops1 == d.ops \o <<OpPush(ConfigPath)>>
        IN  IF PyEq(current_webserver_config, PyStr(_config(cs)))
            THEN Result(c1, ops1, NoError)
            ELSE IF ~check0
            THEN Result(c1, ops1 \o <<OpExec("check-config", "")>>, WebserverCheckFailed)
            ELSE IF is_webserver_running
            THEN Result(c1, ops1 \o <<OpExec("check-config", ""), OpSignal>>, NoError)
            ELSE Result(c1, ops1 \o <<OpExec("check-config", "")>>, NoError))

----------------------------------------------------------------------------
(* xiilib/flask/flask_app.py *)

\* the encoding as it would be if str values were dumped as well
JsonEncodedAll(v) ==
    CASE v.type = "str" -> "\"" \o v.value \o "\""
      [] v.type = "bool" -> IF v.value THEN "true" ELSE "false"
      [] v.type = "int" -> ToString(v.value)

\* v if isinstance(v, str) else json.dumps(v)
JsonEncoded(v) ==
    CASE v.type = "str" -> v.value
      [] v.type = "bool" -> IF v.value THEN "true" ELSE "false"
      [] v.type = "int" -> ToString(v.value)

\* the names of the built-in Flask settings
builtin_flask_config == {removeprefix(c) : c \in {c \in KNOWN_CHARM_CONFIG : startswith(c)}}

\* a dict updated with another: the second one's entries win
Updated(d, e) == [k \in DOMAIN d \cup DOMAIN e |-> IF k \in DOMAIN e THEN e[k] ELSE d[k]]

\* flask_env of _flask_environment as it would be without the filter on app_config
flask_env_unfiltered(cs) == Updated(cs.app_config, cs.flask_config)

\* flask_env of _flask_environment: app_config without the built-in names,
\* updated with flask_config
flask_env(cs) ==
    Updated([k \in DOMAIN cs.app_config \ builtin_flask_config |-> cs.app_config[k]],
            cs.flask_config)

\* env of _flask_environment before the secret key is added
PrefixedEnv(settings) ==
    [name \in {"FLASK_" \o upper(k) : k \in DOMAIN settings} |->
        JsonEncoded(settings[CHOOSE k \in DOMAIN settings : "FLASK_" \o upper(k) = name])]

\* FlaskApp._flask_environment: what it raises, or the environment it returns.
\* No JUJU_CHARM_*_PROXY variable is set on the units of the model
_flask_environment(cs) ==
    Then(PrefixedEnv(flask_env(cs)), LAMBDA env :
        IF "FLASK_SECRET_KEY" \in DOMAIN env
        THEN [raised |-> NoError, env |-> Updated(env, cs.database_uris)]
        ELSE IF flask_secret_key(cs).raised # NoError
        THEN [raised |-> flask_secret_key(cs).raised, env |-> env]
        ELSE [raised |-> NoError,
              env |-> Updated(Updated(env, [FLASK_SECRET_KEY |-> flask_secret_key(cs).value]),
                              cs.database_uris)])

_flask_layer(cs) ==
    [services |->
        [name \in {FLASK_SERVICE_NAME} |->
            [override |-> "replace",
             summary |-> "Flask application service",
             command |-> "python3 -m gunicorn -c /flask/gunicorn.conf.py app:app",
             startup |-> "enabled",
             environment |-> _flask_environment(cs).env]]]

ScriptDrift(completed) ==
    CharmConfigInvalidError(<<"database migration script has been executed">>)

\* the comparison of restart as it would be without the test for an unset script
HasDrift_unset_too(c, cs) ==
    /\ get_completed_script(c) # None
    /\ cs.database_migration_script # get_completed_script(c)

HasDrift(c, cs) ==
    /\ get_completed_script(c) # None
    /\ cs.database_migration_script # None
    /\ cs.database_migration_script # get_completed_script(c)

\* restart as it would be without the comparison of the completed script
restart_without_drift_check(c, cs, ok) ==
    IF ~c.can_connect THEN Result(c, <<>>, NoError)
    ELSE IF ~cs.is_secret_storage_ready THEN Result(c, <<>>, NoError)
    ELSE
    Then(AddLayer(c, _flask_layer(cs)), LAMBDA c1 :
    Then(update_config(c1, cs, ok.check, c1.running), LAMBDA w :
        IF w.raised # NoError THEN Result(w.c, <<OpAddLayer>> \o w.ops, w.raised)
        ELSE
    Then(run(w.c, cs.database_migration_script, ok.migration), LAMBDA m :
        IF m.raised # NoError
        THEN Result(m.c, <<OpAddLayer>> \o w.ops \o m.ops, m.raised)
        ELSE Result(Replan(m.c), <<OpAddLayer>> \o w.ops \o m.ops \o <<OpReplan>>,
                    NoError))))

\* restart as it would be if the migration ran before the webserver update
restart_migration_first(c, cs, ok) ==
    IF ~c.can_connect THEN Result(c, <<>>, NoError)
    ELSE IF ~cs.is_secret_storage_ready THEN Result(c, <<>>, NoError)
    ELSE
    Then(AddLayer(c, _flask_layer(cs)), LAMBDA c1 :
    Then(run(c1, cs.database_migration_script, ok.migration), LAMBDA m :
        IF m.raised # NoError THEN Result(m.c, <<OpAddLayer>> \o m.ops, m.raised)
        ELSE
    Then(update_config(m.c, cs, ok.check, m.c.running), LAMBDA w :
        IF w.raised # NoError
        THEN Result(w.c, <<OpAddLayer>> \o m.ops \o w.ops, w.raised)
        ELSE
    Then(Replan(w.c), LAMBDA c4 :
        IF HasDrift(c4, cs)
        THEN Result(c4, <<OpAddLayer>> \o m.ops \o w.ops \o <<OpReplan>>,
                    ScriptDrift(get_completed_script(c4)))
        ELSE Result(c4, <<OpAddLayer>> \o m.ops \o w.ops \o <<OpReplan>>, NoError)))))

\* restart as it would be if the layer were added before the readiness gate
restart_layer_first(c, cs, ok) ==
    IF ~c.can_connect THEN Result(c, <<>>, NoError)
    ELSE
    Then(AddLayer(c, _flask_layer(cs)), LAMBDA c1 :
        IF ~cs.is_secret_storage_ready THEN Result(c1, <<OpAddLayer>>, NoError)
        ELSE
    Then(update_config(c1, cs, ok.check, c1.running), LAMBDA w :
        IF w.raised # NoError THEN Result(w.c, <<OpAddLayer>> \o w.ops, w.raised)
        ELSE
    Then(run(w.c, cs.database_migration_script, ok.migration), LAMBDA m :
        IF m.raised # NoError
        THEN Result(m.c, <<OpAddLayer>> \o w.ops \o m.ops, m.raised)
        ELSE
    Then(Replan(m.c), LAMBDA c4 :
        IF HasDrift(c4, cs)
        THEN Result(c4, <<OpAddLayer>> \o w.ops \o m.ops \o <<OpReplan>>,
                    ScriptDrift(get_completed_script(c4)))
        ELSE Result(c4, <<OpAddLayer>> \o w.ops \o m.ops \o <<OpReplan>>, NoError)))))

\* FlaskApp.restart
restart(c, cs, ok) ==
    IF ~c.can_connect THEN Result(c, <<>>, NoError)
    ELSE IF ~cs.is_secret_storage_ready THEN Result(c, <<>>, NoError)
    ELSE IF _flask_environment(cs).raised # NoError
    THEN Result(c, <<>>, _flask_environment(cs).raised)
    ELSE
    Then(AddLayer(c, _flask_layer(cs)), LAMBDA c1 :
    Then(update_config(c1, cs, ok.check, c1.running), LAMBDA w :
        IF w.raised # NoError THEN Result(w.c, <<OpAddLayer>> \o w.ops, w.raised)
        ELSE
    Then(run(w.c, cs.database_migration_script, ok.migration), LAMBDA m :
        IF m.raised # NoError
        THEN Result(m.c, <<OpAddLayer>> \o w.ops \o m.ops, m.raised)
        ELSE
    Then(Replan(m.c), LAMBDA c4 :
        IF HasDrift(c4, cs)
        THEN Result(c4, <<OpAddLayer>> \o w.ops \o m.ops \o <<OpReplan>>,
                    ScriptDrift(get_completed_script(c4)))
        ELSE Result(c4, <<OpAddLayer>> \o w.ops \o m.ops \o <<OpReplan>>, NoError)))))

----------------------------------------------------------------------------
(* xiilib/flask/charm.py *)

ActiveStatus == <<"active">>
BlockedStatus(msg) == <<"blocked">> \o msg
UnknownStatus == <<"unknown">>

\* exc.msg of a CharmConfigInvalidError
Msg(e) == Tail(e)

\* _update_app_and_unit_status as it would be without the leadership test
_update_status_any_unit(st, leader, new) ==
    [unit |-> new, app |-> new, app_written |-> TRUE]

\* Charm._update_app_and_unit_status (and Databases._update_status)
_update_app_and_unit_status(st, leader, new) ==
    [unit |-> new,
     app |-> IF leader THEN new ELSE st.app,
     app_written |-> leader]

\* what the properties read of a call: a file's content or its absence, and
\* whether app.status was assigned
Absent == "<absent>"
FileOrAbsent(c, path) == IF Exists(c, path) THEN Pull(c, path) ELSE Absent
NotWritten == <<>>

\* the lines of gunicorn.conf.py in the container, none when it does not exist
ConfigOnDisk(c) == IF Exists(c, ConfigPath) THEN Pull(c, ConfigPath) ELSE <<>>

\* the gate at which FlaskApp.restart returned early, if any
Gate(c, cs) ==
    IF ~c.can_connect THEN "connectivity"
    ELSE IF ~cs.is_secret_storage_ready THEN "readiness"
    ELSE "passed"

\* Charm._restart_flask (and Databases._restart): only CharmConfigInvalidError
\* is caught.  What the call did is kept in a record for the properties to read
_restart_flask(handler, c, cs, st, leader, ok) ==
    Then(restart(c, cs, ok), LAMBDA r :
    Then(IF r.raised = NoError
         THEN _update_app_and_unit_status(st, leader, ActiveStatus)
         ELSE _update_app_and_unit_status(st, leader, BlockedStatus(Msg(r.raised))),
         LAMBDA s :
        [c |-> r.c,
         status |-> [unit |-> s.unit, app |-> s.app],
         record |-> [handler |-> handler, gate |-> Gate(c, cs), leader |-> leader,
                     script |-> cs.database_migration_script,
                     status_file_before |-> FileOrAbsent(c, StatusFile),
                     completed_before |-> FileOrAbsent(c, CompletedScriptFile),
                     status_file_after |-> FileOrAbsent(r.c, StatusFile),
                     completed_after |-> FileOrAbsent(r.c, CompletedScriptFile),
                     unchanged |-> (r.c = c),
                     exit0 |-> ok.migration,
                     settings |-> webserver_config(cs),
                     environment |-> _flask_environment(cs).env,
                     flask_config |-> cs.flask_config,
                     app_config |-> cs.app_config,
                     database_uris |-> cs.database_uris,
                     flask_secret_key |-> flask_secret_key(cs),
                     is_secret_storage_ready |-> cs.is_secret_storage_ready,
                     config_new |-> _config(cs),
                     config_before |-> ConfigOnDisk(c),
                     config_after |-> ConfigOnDisk(r.c),
                     running_before |-> c.running,
                     check0 |-> ok.check,
                     update_config |->
                         IF Gate(c, cs) # "passed" THEN <<>>
                         ELSE Then(update_config(AddLayer(c, _flask_layer(cs)), cs,
                                                 ok.check, c.running), LAMBDA w :
                                  << [ops |-> w.ops,
                                      services_unchanged |->
                                          (w.c.running = c.running /\ w.c.plan = c.plan)] >>),
                     ops |-> r.ops, raised |-> r.raised,
                     propagated |-> IF IsConfigInvalid(r.raised) THEN NoError
                                    ELSE r.raised,
                     unit_set |-> s.unit,
                     app_set |-> IF s.app_written THEN s.app ELSE NotWritten]]))

\* runs: the calls of restart; once: the calls of RunOnce.run; storage: the
\* calls on the Django secret storage; action: what an action event was told
Dispatched(event, runs, error) ==
    [event |-> event, runs |-> runs, once |-> <<>>, error |-> error,
     storage |-> <<>>, action |-> <<>>]

\* Charm.__init__ as it would be if it went on after from_charm raised
NotObserved_active(c, cs, st, leader) ==
    Then(_update_app_and_unit_status(st, leader, ActiveStatus), LAMBDA s :
        [c |-> c, status |-> [unit |-> s.unit, app |-> s.app], runs |-> <<>>,
         error |-> NoError])

\* Charm.__init__ when from_charm raised CharmConfigInvalidError: the status
\* is blocked and __init__ returns before an observer of the charm is registered
NotObserved(c, cs, st, leader) ==
    Then(_update_app_and_unit_status(st, leader, BlockedStatus(Msg(cs.raised))), LAMBDA s :
        [c |-> c, status |-> [unit |-> s.unit, app |-> s.app], runs |-> <<>>,
         error |-> NoError])

\* what a dispatch with the single observer _restart_flask did
Handled(h) ==
    [c |-> h.c, status |-> h.status, runs |-> <<h.record>>, error |-> h.record.propagated]

Init ==
    /\ framework \in {"flask", "django"}
    /\ config = [database_migration_script |-> None]
    /\ secret = NoRelation
    /\ is_leader \in BOOLEAN
    /\ container = FreshContainer
    /\ workload \in [migration : BOOLEAN, check : BOOLEAN]
    /\ status = [unit |-> UnknownStatus, app |-> UnknownStatus]
    /\ last = Dispatched("none", <<>>, NoError)
    /\ peer = NoPeer
    /\ databases = NoRelationData

\* config-changed: the operator has set the configuration
OnConfigChanged ==
    /\ framework = "flask"
    /\ \E cfg \in Configs :
       \E cs \in {from_charm(cfg, secret, get_uris(databases))} :
       \E h \in {IF cs.raised # NoError
                 THEN NotObserved(container, cs, status, is_leader)
                 ELSE Handled(_restart_flask("Charm._restart_flask", container, cs,
                                             status, is_leader, workload))} :
           /\ config' = cfg
           /\ container' = h.c
           /\ status' = h.status
           /\ last' = Dispatched("config-changed", h.runs, h.error)
    /\ UNCHANGED <<databases, peer, framework, secret, is_leader, workload>>

\* flask-app-pebble-ready: Pebble in the workload container answers
OnFlaskAppPebbleReady ==
    /\ framework = "flask"
    /\ \E cs \in {from_charm(config, secret, get_uris(databases))} :
       \E h \in {IF cs.raised # NoError
                 THEN NotObserved([container EXCEPT !.can_connect = TRUE], cs, status,
                                  is_leader)
                 ELSE Handled(_restart_flask("Charm._restart_flask",
                                             [container EXCEPT !.can_connect = TRUE],
                                             cs, status, is_leader, workload))} :
           /\ container' = h.c
           /\ status' = h.status
           /\ last' = Dispatched("pebble-ready", h.runs, h.error)
    /\ UNCHANGED <<databases, peer, framework, config, secret, is_leader, workload>>

\* _on_update_status as it would be if it compared with the wrong status
_on_update_status_pending(c, cs, st, leader, ok) ==
    IF ~c.can_connect
    THEN [c |-> c, status |-> st, runs |-> <<>>, error |-> ConnectionError]
    ELSE IF get_status(c) = "PENDING"
    THEN Then(_restart_flask("Charm._restart_flask", c, cs, st, leader, ok), LAMBDA h :
              [c |-> h.c, status |-> h.status, runs |-> <<h.record>>,
               error |-> h.record.propagated])
    ELSE [c |-> c, status |-> st, runs |-> <<>>, error |-> NoError]

\* _on_update_status as it would be if it restarted like every other handler
_on_update_status_unguarded(c, cs, st, leader, ok) ==
    Then(_restart_flask("Charm._restart_flask", c, cs, st, leader, ok), LAMBDA h :
         [c |-> h.c, status |-> h.status, runs |-> <<h.record>>,
          error |-> h.record.propagated])

\* Charm._on_update_status.  get_status asks Pebble for the status file, which
\* raises ConnectionError when Pebble does not answer
_on_update_status(c, cs, st, leader, ok) ==
    IF ~c.can_connect
    THEN [c |-> c, status |-> st, runs |-> <<>>, error |-> ConnectionError]
    ELSE IF get_status(c) = "FAILED"
    THEN Then(_restart_flask("Charm._restart_flask", c, cs, st, leader, ok), LAMBDA h :
              [c |-> h.c, status |-> h.status, runs |-> <<h.record>>,
               error |-> h.record.propagated])
    ELSE [c |-> c, status |-> st, runs |-> <<>>, error |-> NoError]

\* update-status
OnUpdateStatus ==
    /\ framework = "flask"
    /\ \E cs \in {from_charm(config, secret, get_uris(databases))} :
       \E u \in {IF cs.raised # NoError
                 THEN NotObserved(container, cs, status, is_leader)
                 ELSE _on_update_status(container, cs, status, is_leader, workload)} :
           /\ container' = u.c
           /\ status' = u.status
           /\ last' = Dispatched("update-status", u.runs, u.error)
    /\ UNCHANGED <<databases, peer, framework, config, secret, is_leader, workload>>

\* secret-storage-relation-created: only SecretStorage observes it;
\* Charm.__init__ has set the blocked status if from_charm raised
OnSecretStorageRelationCreated ==
    /\ framework = "flask"
    /\ secret = NoRelation
    /\ \E seen \in (IF is_leader THEN {""} ELSE {""} \cup Keys), generated \in Keys :
           secret' = _set_initial_values(seen, is_leader, generated)
    /\ \E cs \in {from_charm(config, secret, get_uris(databases))} :
           status' = IF cs.raised # NoError
                     THEN NotObserved(container, cs, status, is_leader).status
                     ELSE status
    /\ last' = Dispatched("secret-storage-relation-created", <<>>, NoError)
    /\ UNCHANGED <<databases, peer, framework, config, is_leader, container, workload>>

\* secret-storage-relation-changed: SecretStorage._set_initial_values, then
\* Charm._on_secret_storage_relation_changed with the charm state built before
OnSecretStorageRelationChanged ==
    /\ framework = "flask"
    /\ secret # NoRelation
    /\ \E seen \in (IF is_leader THEN {secret} ELSE {secret} \cup Keys),
          generated \in Keys :
       \E cs \in {from_charm(config, seen, get_uris(databases))} :
       \E h \in {IF cs.raised # NoError
                 THEN NotObserved(container, cs, status, is_leader)
                 ELSE Handled(_restart_flask("Charm._restart_flask", container, cs,
                                             status, is_leader, workload))} :
           /\ secret' = _set_initial_values(seen, is_leader, generated)
           /\ container' = h.c
           /\ status' = h.status
           /\ last' = Dispatched("secret-storage-relation-changed", h.runs, h.error)
    /\ UNCHANGED <<databases, peer, framework, config, is_leader, workload>>

\* database-created or relation-broken of a database relation:
\* Databases._on_database_requires_event, then the charm's own handler
OnDatabaseEvent ==
    /\ framework = "flask"
    /\ \E cs \in {from_charm(config, secret, get_uris(databases))} :
       \E h1 \in {IF cs.raised # NoError
                  THEN NotObserved(container, cs, status, is_leader)
                  ELSE Handled(_restart_flask("Databases._restart", container, cs,
                                              status, is_leader, workload))} :
       \E h2 \in {IF cs.raised # NoError \/ h1.error # NoError THEN h1
                  ELSE Then(_restart_flask("Charm._restart_flask", h1.c, cs, h1.status,
                                           is_leader, workload), LAMBDA h :
                            [c |-> h.c, status |-> h.status,
                             runs |-> h1.runs \o <<h.record>>,
                             error |-> h.record.propagated])} :
           /\ container' = h2.c
           /\ status' = h2.status
           /\ last' = Dispatched("database-event", h2.runs, h2.error)
    /\ UNCHANGED <<databases, peer, framework, config, secret, is_leader, workload>>

\* event.fail(message) and event.set_results(results) of an action event
ActionFailed(message) == <<"fail", message>>
ActionResults(value) == <<"set_results", "status", value>>

\* _on_rotate_secret_key_action as it would be without the leadership test
_on_rotate_secret_key_action_any_unit(c, cs, sec, st, leader, ok, new) ==
    IF ~is_initialized(sec)
    THEN [secret |-> sec, c |-> c, status |-> st, runs |-> <<>>, error |-> NoError,
          action |-> ActionFailed("flask charm is still initializing")]
    ELSE Then(_restart_flask("Charm._restart_flask", c, cs, st, leader, ok), LAMBDA h :
              [secret |-> new, c |-> h.c, status |-> h.status, runs |-> <<h.record>>,
               error |-> h.record.propagated, action |-> ActionResults("success")])

\* Charm._on_rotate_secret_key_action; new is the token reset_flask_secret_key
\* generates, cs the charm state built before the handler ran
_on_rotate_secret_key_action(c, cs, sec, st, leader, ok, new) ==
    IF ~leader
    THEN [secret |-> sec, c |-> c, status |-> st, runs |-> <<>>, error |-> NoError,
          action |-> ActionFailed("only leader unit can rotate secret key")]
    ELSE IF ~is_initialized(sec)
    THEN [secret |-> sec, c |-> c, status |-> st, runs |-> <<>>, error |-> NoError,
          action |-> ActionFailed("flask charm is still initializing")]
    ELSE Then(_restart_flask("Charm._restart_flask", c, cs, st, leader, ok), LAMBDA h :
              [secret |-> new, c |-> h.c, status |-> h.status, runs |-> <<h.record>>,
               error |-> h.record.propagated, action |-> ActionResults("success")])

\* rotate-secret-key action
OnRotateSecretKeyAction ==
    /\ framework = "flask"
    /\ \E new \in Keys :
       \E cs \in {from_charm(config, secret, get_uris(databases))} :
       \E a \in {IF cs.raised # NoError
                 THEN Then(NotObserved(container, cs, status, is_leader), LAMBDA n :
                           [secret |-> secret, c |-> n.c, status |-> n.status,
                            runs |-> n.runs, error |-> n.error, action |-> <<>>])
                 ELSE _on_rotate_secret_key_action(container, cs, secret, status,
                                                   is_leader, workload, new)} :
           /\ secret' = a.secret
           /\ container' = a.c
           /\ status' = a.status
           /\ last' = [Dispatched("rotate-secret-key", a.runs, a.error)
                          EXCEPT !.action = a.action]
    /\ UNCHANGED <<databases, peer, framework, config, is_leader, workload>>

----------------------------------------------------------------------------
(* xiilib/django/once.py *)

RunOnceStateDir == "/django/state/run-once"
RunOnceStateFile == "/django/state/run-once/database-migration"
RunOnceCommandArchive == "/django/state/run-once/command"

\* the commands RunOnce.run is called with
Commands ==
    { <<"python3", "manage.py", "migrate">>,
      <<"python3", "manage.py", "createcachetable">> }

\* json.dumps of a list of str
RECURSIVE JsonItems(_)
JsonItems(s) ==
    IF Len(s) = 0 THEN ""
    ELSE IF Len(s) = 1 THEN "\"" \o s[1] \o "\""
    ELSE "\"" \o s[1] \o "\", " \o JsonItems(Tail(s))

JsonDumps(s) == "[" \o JsonItems(s) \o "]"

RunOnce_get_status(c) ==
    IF ~Exists(c, RunOnceStateFile) THEN "PENDING" ELSE Pull(c, RunOnceStateFile)

\* RunOnce.run; exit0 is whether the command exits 0 in the workload
RunOnce_run(c, command, exit0) ==
    IF RunOnce_get_status(c) = "COMPLETED"
    THEN [c |-> c, ops |-> <<>>, returned |-> TRUE]
    ELSE
    Then(MakeDir(c, RunOnceStateDir), LAMBDA c1 :
        IF exit0
        THEN [c |-> Push(Push(c1, RunOnceStateFile, "COMPLETED"),
                         RunOnceCommandArchive, JsonDumps(command)),
              ops |-> <<OpMakeDir(RunOnceStateDir),
                        OpExec("run-once", JsonDumps(command)),
                        OpPush(RunOnceStateFile), OpPush(RunOnceCommandArchive)>>,
              returned |-> TRUE]
        ELSE [c |-> Push(Push(c1, RunOnceStateFile, "FAILED"),
                         RunOnceCommandArchive, JsonDumps(command)),
              ops |-> <<OpMakeDir(RunOnceStateDir),
                        OpExec("run-once", JsonDumps(command)),
                        OpPush(RunOnceStateFile), OpPush(RunOnceCommandArchive)>>,
              returned |-> FALSE])

\* a call of RunOnce.run on the Django workload container; its caller,
\* Charm.reconcile, makes it once the container can be connected to
RunOnceRun ==
    /\ framework = "django"
    /\ container.can_connect
    /\ \E command \in Commands :
       \E o \in {RunOnce_run(container, command, workload.migration)} :
           /\ container' = o.c
           /\ last' = [event |-> "run-once", runs |-> <<>>, error |-> NoError,
                       storage |-> <<>>, action |-> <<>>,
                       once |-> << [command |-> JsonDumps(command),
                                    exit0 |-> workload.migration,
                                    status_before |-> RunOnce_get_status(container),
                                    archive_before |->
                                        FileOrAbsent(container, RunOnceCommandArchive),
                                    status_after |-> RunOnce_get_status(o.c),
                                    archive_after |->
                                        FileOrAbsent(o.c, RunOnceCommandArchive),
                                    ops |-> o.ops,
                                    returned |-> o.returned] >>]
    /\ UNCHANGED <<databases, peer, framework, config, secret, is_leader, workload, status>>

----------------------------------------------------------------------------
(* The secret storage of a Django application: the relation events on its  *)
(* units, and the calls of set_secret and get_secret                       *)

\* the writers of the initial values after a handler wrote the keys
WriterAfter(p, unit, written) ==
    [k \in DOMAIN p.initial_writer \cup written |->
        IF k \in written THEN unit ELSE p.initial_writer[k]]

\* secret-storage-relation-created on a unit that joins the relation
SecretRelationCreated ==
    /\ framework = "django"
    /\ \E unit \in Units \ peer.joined, initial_values \in [peer.declared -> Keys] :
       \E p \in {[peer EXCEPT !.exists = TRUE, !.joined = @ \cup {unit}]} :
       \E h \in {SecretStorage_set_initial_values(p, unit, initial_values)} :
           /\ peer' = [p EXCEPT !.data = h.data,
                                !.initial_writer = WriterAfter(p, unit, h.written)]
           /\ last' = StorageCall("secret-storage-relation-created", unit, p,
                                  h.data, h.written, NoError, None)
    /\ UNCHANGED <<databases, framework, config, secret, is_leader, container, workload, status>>

\* secret-storage-relation-changed on a unit of the relation
SecretRelationChanged ==
    /\ framework = "django"
    /\ \E unit \in peer.joined, initial_values \in [peer.declared -> Keys] :
       \E h \in {SecretStorage_set_initial_values(peer, unit, initial_values)} :
           /\ peer' = [peer EXCEPT !.data = h.data,
                                   !.initial_writer = WriterAfter(peer, unit, h.written)]
           /\ last' = StorageCall("secret-storage-relation-changed", unit, peer,
                                  h.data, h.written, NoError, None)
    /\ UNCHANGED <<databases, framework, config, secret, is_leader, container, workload, status>>

\* Juju moves the leadership: to another unit, or to none for a while
LeaderElected ==
    /\ framework = "django"
    /\ \E l \in {{}} \cup {{unit} : unit \in Units} :
           /\ l # peer.leaders
           /\ peer' = [peer EXCEPT !.leaders = l]
    /\ UNCHANGED <<databases, framework, config, secret, is_leader, container, workload, status,
                   last>>

\* the charm is upgraded to a revision that declares one more key
CharmUpgraded ==
    /\ framework = "django"
    /\ Cardinality(peer.declared) < MaxDeclaredKeys
    /\ peer' = [peer EXCEPT
                   !.declared = @ \cup {DeclarableKeys[Cardinality(peer.declared) + 1]}]
    /\ UNCHANGED <<databases, framework, config, secret, is_leader, container, workload, status,
                   last>>

\* a call of set_secret, made as the rotate-secret-key handler makes it: on
\* the leader, with a new token
SetSecretCalled ==
    /\ framework = "django"
    /\ \E unit \in peer.leaders, key \in peer.declared, value \in Keys :
       \E h \in {set_secret(peer, key, value)} :
           /\ peer' = [peer EXCEPT !.data = h.data]
           /\ last' = StorageCall("set_secret", unit, peer, h.data, {}, h.raised, None)
    /\ UNCHANGED <<databases, framework, config, secret, is_leader, container, workload, status>>

\* a call of get_secret on any unit
GetSecretCalled ==
    /\ framework = "django"
    /\ \E unit \in Units, key \in peer.declared :
       \E h \in {get_secret(peer, key)} :
           /\ last' = StorageCall("get_secret", unit, peer, peer.data, {}, h.raised,
                                  h.returned)
    /\ UNCHANGED <<databases, framework, config, secret, is_leader, container, workload, status,
                   peer>>

----------------------------------------------------------------------------
(* xiilib/django/server.py and xiilib/django/charm.py.  Charm.__init__     *)
(* builds GunicornServer without the service_name its constructor         *)
(* requires; reconcile is modelled as it runs on a charm whose server has  *)
(* been given one.                                                         *)

\* the service_name argument of GunicornServer
service_name == "django"
DjangoConfigFile == "/django/gunicorn.conf.py"
DjangoLogDir == "/var/log/gunicorn/"
DjangoLayerFile == "/var/lib/pebble/default/layers/001-default.yaml"
MigrateCommand == <<"python3", "manage.py", "migrate">>

\* the layer the image defines the service in
ImageLayer ==
    [services |->
        [name \in {service_name} |->
            [override |-> "merge",
             command |-> "python3 -m gunicorn -c /django/gunicorn.conf.py",
             environment |-> [k \in {} |-> ""]]]]

\* the workload container as Pebble starts it from the image, with or without
\* a gunicorn.conf.py in the image
DjangoContainer(with_config) ==
    [can_connect |-> FALSE,
     fs |-> [p \in {DjangoLayerFile} \cup (IF with_config THEN {DjangoConfigFile} ELSE {})
                |-> IF p = DjangoLayerFile THEN "<layer>" ELSE "<image>"],
     layer |-> <<ImageLayer>>,
     plan |-> <<ImageLayer>>,
     running |-> FALSE]

WaitingStatus(msg) == <<"waiting", msg>>
WebserverError == <<"WebserverError", "gunicorn configuration check failed">>
PathError == <<"PathError", "not-found">>
OpPull(path) == <<"pull", path>>
OpListFiles == <<"list_files", "/var/lib/pebble/default/layers/">>

\* GunicornServer._gen_config_file with no webserver_* option set
_gen_config_file ==
    <<"bind = ['0.0.0.0:8000']",
      "chdir = '/django/app'",
      "accesslog = '/var/log/gunicorn/access.log'",
      "errorlog = '/var/log/gunicorn/access.log'",
      "statsd_host = 'localhost:9125'">>

\* GunicornServer._refresh_config_file: pull raises when the file does not
\* exist; its result is a file object, which no str equals, so the file is
\* pushed and True returned every time
_refresh_config_file(c) ==
    IF ~Exists(c, DjangoConfigFile)
    THEN [c |-> c, ops |-> <<OpPull(DjangoConfigFile)>>, returned |-> FALSE,
          raised |-> PathError]
    ELSE [c |-> Push(c, DjangoConfigFile, _gen_config_file),
          ops |-> <<OpPull(DjangoConfigFile), OpPush(DjangoConfigFile)>>,
          returned |-> TRUE, raised |-> NoError]

\* the layer apply adds: the first layer of the image with every service's
\* override replaced and env merged into the environment of the service
DjangoLayer(c, env) ==
    [services |->
        [name \in DOMAIN ImageLayer.services |->
            [ImageLayer.services[name] EXCEPT
                !.override = "replace",
                !.environment = IF name = service_name THEN Updated(@, env) ELSE @]]]

\* GunicornServer.apply; check0 is whether gunicorn --check-config exits 0
GunicornServer_apply(c, env, check0) ==
    Then(_refresh_config_file(c), LAMBDA f :
        IF f.raised # NoError THEN Result(f.c, f.ops, f.raised)
        ELSE
        Then(MakeDir(f.c, DjangoLogDir), LAMBDA c1 :
        Then(f.ops \o <<OpMakeDir(DjangoLogDir), OpExec("check-config", service_name)>>,
             LAMBDA ops1 :
            IF ~check0 THEN Result(c1, ops1, WebserverError)
            ELSE
            Then(AddLayer(c1, DjangoLayer(c1, env)), LAMBDA c2 :
                Result(Replan(c2),
                       ops1 \o <<OpListFiles, OpPull(DjangoLayerFile), OpAddLayer>>
                            \o (IF f.returned /\ c2.running THEN <<OpSignal>> ELSE <<>>)
                            \o <<OpReplan>>,
                       NoError)))))

\* Databases.is_ready of xiilib/django/databases.py (its get_uris is the
\* get_uris of xiilib/flask/databases.py)
is_ready(database_requirers) ==
    Cardinality(DOMAIN get_uris(database_requirers)) = Cardinality(DOMAIN database_requirers)

\* Charm._get_environment with django_allowed_hosts and django_secret_key unset
_get_environment(database_requirers, p) ==
    Updated(get_uris(database_requirers),
            [DJANGO_SECRET_KEY |-> "\"" \o get_secret(p, DeclarableKeys[1]).returned \o "\""])

\* what the properties read of a call of reconcile: the gate it returned
\* at, what the migration returned, what it did on the container, the
\* statuses it left and whether it wrote the application status
Reconciled(c, st, leader, gate, migration, ops, apply, app_written, raised) ==
    [c |-> c, status |-> st,
     record |-> [gate |-> gate, leader |-> leader, migration |-> migration,
                 ops |-> ops, apply |-> apply, unit_set |-> st.unit,
                 app_set |-> IF app_written THEN st.app ELSE NotWritten,
                 raised |-> raised]]

DjangoMigrationFailed ==
    BlockedStatus(<<"Database migration failed, will retry in the next update-status">>)
WebserverFailed ==
    BlockedStatus(<<"Webserver start-up failed, review your charm config or database relation">>)

\* reconcile as it would be if it looked at the secret storage before the databases
reconcile_secrets_first(c, st, leader, database_requirers, p, w) ==
    IF ~c.can_connect
    THEN Reconciled(c, [st EXCEPT !.unit = WaitingStatus("Waiting for pebble ready")],
                    leader, "connectivity", "not-called", <<>>, "not-called", FALSE, NoError)
    ELSE IF ~SecretStorage_is_initialized(p)
    THEN Reconciled(c, [st EXCEPT
                           !.unit = WaitingStatus("Waiting for secret store initialization")],
                    leader, "secrets", "not-called", <<>>, "not-called", FALSE, NoError)
    ELSE IF ~is_ready(database_requirers)
    THEN Reconciled(c, [unit |-> WaitingStatus("Waiting for database integrations"),
                        app |-> IF leader
                                THEN WaitingStatus("Waiting for database integrations")
                                ELSE st.app],
                    leader, "databases", "not-called", <<>>, "not-called", leader, NoError)
    ELSE
    Then(IF DOMAIN get_uris(database_requirers) # {}
         THEN RunOnce_run(c, MigrateCommand, w.migration)
         ELSE [c |-> c, ops |-> <<>>, returned |-> TRUE],
         LAMBDA m :
        IF ~m.returned
        THEN Reconciled(m.c, [st EXCEPT !.unit = DjangoMigrationFailed], leader, "passed",
                        "failed", m.ops, "not-called", FALSE, NoError)
        ELSE
        Then(GunicornServer_apply(m.c, _get_environment(database_requirers, p), w.check),
             LAMBDA a :
            IF a.raised = NoError
            THEN Reconciled(a.c, [unit |-> ActiveStatus,
                                  app |-> IF leader THEN ActiveStatus ELSE st.app],
                            leader, "passed", "ok", m.ops \o a.ops, "applied", leader,
                            NoError)
            ELSE IF a.raised = WebserverError
            THEN Reconciled(a.c, [st EXCEPT !.unit = WebserverFailed], leader, "passed",
                            "ok", m.ops \o a.ops, "failed", FALSE, NoError)
            ELSE Reconciled(a.c, st, leader, "passed", "ok", m.ops \o a.ops, "raised",
                            FALSE, a.raised)))

\* reconcile as it would be if it went on to the webserver after a failed migration
reconcile_without_return(c, st, leader, database_requirers, p, w) ==
    IF ~c.can_connect
    THEN Reconciled(c, [st EXCEPT !.unit = WaitingStatus("Waiting for pebble ready")],
                    leader, "connectivity", "not-called", <<>>, "not-called", FALSE, NoError)
    ELSE IF ~is_ready(database_requirers)
    THEN Reconciled(c, [unit |-> WaitingStatus("Waiting for database integrations"),
                        app |-> IF leader
                                THEN WaitingStatus("Waiting for database integrations")
                                ELSE st.app],
                    leader, "databases", "not-called", <<>>, "not-called", leader, NoError)
    ELSE IF ~SecretStorage_is_initialized(p)
    THEN Reconciled(c, [st EXCEPT
                           !.unit = WaitingStatus("Waiting for secret store initialization")],
                    leader, "secrets", "not-called", <<>>, "not-called", FALSE, NoError)
    ELSE
    Then(IF DOMAIN get_uris(database_requirers) # {}
         THEN RunOnce_run(c, MigrateCommand, w.migration)
         ELSE [c |-> c, ops |-> <<>>, returned |-> TRUE],
         LAMBDA m :
        Then(GunicornServer_apply(m.c, _get_environment(database_requirers, p), w.check),
             LAMBDA a :
            IF a.raised = NoError
            THEN Reconciled(a.c, [unit |-> ActiveStatus,
                                  app |-> IF leader THEN ActiveStatus ELSE st.app],
                            leader, "passed", IF m.returned THEN "ok" ELSE "failed",
                            m.ops \o a.ops, "applied", leader, NoError)
            ELSE IF a.raised = WebserverError
            THEN Reconciled(a.c, [st EXCEPT !.unit = WebserverFailed], leader, "passed",
                            IF m.returned THEN "ok" ELSE "failed", m.ops \o a.ops, "failed",
                            FALSE, NoError)
            ELSE Reconciled(a.c, st, leader, "passed",
                            IF m.returned THEN "ok" ELSE "failed", m.ops \o a.ops, "raised",
                            FALSE, a.raised)))

\* Charm.reconcile of xiilib/django/charm.py
reconcile(c, st, leader, database_requirers, p, w) ==
    IF ~c.can_connect
    THEN Reconciled(c, [st EXCEPT !.unit = WaitingStatus("Waiting for pebble ready")],
                    leader, "connectivity", "not-called", <<>>, "not-called", FALSE, NoError)
    ELSE IF ~is_ready(database_requirers)
    THEN Reconciled(c, [unit |-> WaitingStatus("Waiting for database integrations"),
                        app |-> IF leader
                                THEN WaitingStatus("Waiting for database integrations")
                                ELSE st.app],
                    leader, "databases", "not-called", <<>>, "not-called", leader, NoError)
    ELSE IF ~SecretStorage_is_initialized(p)
    THEN Reconciled(c, [st EXCEPT
                           !.unit = WaitingStatus("Waiting for secret store initialization")],
                    leader, "secrets", "not-called", <<>>, "not-called", FALSE, NoError)
    ELSE
    Then(IF DOMAIN get_uris(database_requirers) # {}
         THEN RunOnce_run(c, MigrateCommand, w.migration)
         ELSE [c |-> c, ops |-> <<>>, returned |-> TRUE],
         LAMBDA m :
        IF ~m.returned
        THEN Reconciled(m.c, [st EXCEPT !.unit = DjangoMigrationFailed], leader, "passed",
                        "failed", m.ops, "not-called", FALSE, NoError)
        ELSE
        Then(GunicornServer_apply(m.c, _get_environment(database_requirers, p), w.check),
             LAMBDA a :
            IF a.raised = NoError
            THEN Reconciled(a.c, [unit |-> ActiveStatus,
                                  app |-> IF leader THEN ActiveStatus ELSE st.app],
                            leader, "passed", "ok", m.ops \o a.ops, "applied", leader,
                            NoError)
            ELSE IF a.raised = WebserverError
            THEN Reconciled(a.c, [st EXCEPT !.unit = WebserverFailed], leader, "passed",
                            "ok", m.ops \o a.ops, "failed", FALSE, NoError)
            ELSE Reconciled(a.c, st, leader, "passed", "ok", m.ops \o a.ops, "raised",
                            FALSE, a.raised)))

\* what a dispatch on the Django unit did
DjangoDispatched(event, reconciles, error, action) ==
    [event |-> event, runs |-> <<>>, once |-> <<>>, error |-> error,
     storage |-> <<>>, action |-> action, reconciles |-> reconciles]

\* the unit of the model: the first of the units of the application
ThisUnit == CHOOSE unit \in Units : \A other \in Units : unit <= other

\* the handlers that call reconcile and nothing else: upgrade-charm,
\* config-changed
OnDjangoConfigChanged ==
    /\ framework = "django"
    /\ \E h \in {reconcile(container, status, is_leader, databases, peer, workload)} :
           /\ container' = h.c
           /\ status' = h.status
           /\ last' = DjangoDispatched("config-changed", <<h.record>>, h.record.raised, <<>>)
    /\ UNCHANGED <<databases, peer, framework, config, secret, is_leader, workload>>

\* django-app-pebble-ready: Pebble in the workload container answers
OnDjangoAppPebbleReady ==
    /\ framework = "django"
    /\ \E h \in {reconcile([container EXCEPT !.can_connect = TRUE], status, is_leader,
                           databases, peer, workload)} :
           /\ container' = h.c
           /\ status' = h.status
           /\ last' = DjangoDispatched("pebble-ready", <<h.record>>, h.record.raised, <<>>)
    /\ UNCHANGED <<databases, peer, framework, config, secret, is_leader, workload>>

\* update-status: reconcile is called when the migration has failed.  With
\* Pebble not answering, exists raises ConnectionError
OnDjangoUpdateStatus ==
    /\ framework = "django"
    /\ IF ~container.can_connect
       THEN /\ last' = DjangoDispatched("update-status", <<>>, ConnectionError, <<>>)
            /\ UNCHANGED <<container, status>>
       ELSE IF RunOnce_get_status(container) # "FAILED"
       THEN /\ last' = DjangoDispatched("update-status", <<>>, NoError, <<>>)
            /\ UNCHANGED <<container, status>>
       ELSE \E h \in {reconcile(container, status, is_leader, databases, peer, workload)} :
                /\ container' = h.c
                /\ status' = h.status
                /\ last' = DjangoDispatched("update-status", <<h.record>>,
                                            h.record.raised, <<>>)
    /\ UNCHANGED <<databases, peer, framework, config, secret, is_leader, workload>>

\* secret-storage-relation-created on the unit: SecretStorage._set_initial_values
\* is its only observer
OnDjangoSecretStorageRelationCreated ==
    /\ framework = "django"
    /\ ThisUnit \notin peer.joined
    /\ \E initial_values \in [peer.declared -> Keys] :
       \E p \in {[peer EXCEPT !.exists = TRUE, !.joined = @ \cup {ThisUnit}]} :
       \E s \in {SecretStorage_set_initial_values(p, ThisUnit, initial_values)} :
           /\ peer' = [p EXCEPT !.data = s.data,
                                !.initial_writer = WriterAfter(p, ThisUnit, s.written)]
           /\ last' = DjangoDispatched("secret-storage-relation-created", <<>>, NoError,
                                       <<>>)
    /\ UNCHANGED <<databases, framework, config, secret, is_leader, container, workload,
                   status>>

\* secret-storage-relation-changed on the unit: _set_initial_values, then
\* Charm._on_secret_storage_relation_changed
OnDjangoSecretStorageRelationChanged ==
    /\ framework = "django"
    /\ ThisUnit \in peer.joined
    /\ \E initial_values \in [peer.declared -> Keys] :
       \E s \in {SecretStorage_set_initial_values(peer, ThisUnit, initial_values)} :
       \E p \in {[peer EXCEPT !.data = s.data,
                              !.initial_writer = WriterAfter(peer, ThisUnit, s.written)]} :
       \E h \in {reconcile(container, status, is_leader, databases, p, workload)} :
           /\ peer' = p
           /\ container' = h.c
           /\ status' = h.status
           /\ last' = DjangoDispatched("secret-storage-relation-changed", <<h.record>>,
                                       h.record.raised, <<>>)
    /\ UNCHANGED <<databases, framework, config, secret, is_leader, workload>>

\* the relations of the databases the model moves between: none, one of the
\* two, both
DjangoRelationData ==
    Then([endpoints |-> EndpointList(1), username |-> "u", password |-> "p"], LAMBDA d :
        { NoRelationData,
          [NoRelationData EXCEPT !["postgresql"].relation_data = <<d>>],
          [i \in Interfaces |-> [relation_data |-> <<d>>, database |-> "flask-app"]] })

\* database_created or endpoints_changed of a requirer, the relation data as
\* the provider has set it: Databases._on_database_event emits
\* all_databases_ready, whose observer calls reconcile
OnDjangoDatabaseEvent ==
    /\ framework = "django"
    /\ \E d \in DjangoRelationData \ {NoRelationData} :
           /\ databases' = d
           /\ IF ~is_ready(d)
              THEN /\ last' = DjangoDispatched("database-event", <<>>, NoError, <<>>)
                   /\ UNCHANGED <<container, status>>
              ELSE \E h \in {reconcile(container, status, is_leader, d, peer, workload)} :
                       /\ container' = h.c
                       /\ status' = h.status
                       /\ last' = DjangoDispatched("database-event", <<h.record>>,
                                                   h.record.raised, <<>>)
    /\ UNCHANGED <<peer, framework, config, secret, is_leader, workload>>

\* the rotate-secret-key action on the unit; token is secrets.token_urlsafe(32)
OnDjangoRotateSecretKeyAction ==
    /\ framework = "django"
    /\ IF ~is_leader
       THEN /\ last' = DjangoDispatched("rotate-secret-key", <<>>, NoError,
                           ActionFailed("only leader unit can rotate secret key"))
            /\ UNCHANGED <<peer, container, status>>
       ELSE IF ~SecretStorage_is_initialized(peer)
       THEN /\ last' = DjangoDispatched("rotate-secret-key", <<>>, NoError,
                           ActionFailed("charm is still initializing"))
            /\ UNCHANGED <<peer, container, status>>
       ELSE \E token \in Keys :
            \E p \in {[peer EXCEPT !.data = set_secret(peer, DeclarableKeys[1], token).data]} :
            \E h \in {reconcile(container, status, is_leader, databases, p, workload)} :
                /\ peer' = p
                /\ container' = h.c
                /\ status' = h.status
                /\ last' = DjangoDispatched("rotate-secret-key", <<h.record>>,
                                            h.record.raised, ActionResults("success"))
    /\ UNCHANGED <<databases, framework, config, secret, is_leader, workload>>

\* the relation events of the other units, which write the relation data
RemoteSecretRelationCreated ==
    /\ SecretRelationCreated
    /\ last'.storage[1].unit # ThisUnit

RemoteSecretRelationChanged ==
    /\ SecretRelationChanged
    /\ last'.storage[1].unit # ThisUnit

\* Juju moves the leadership between the units, or to none for a while
DjangoLeaderElected ==
    /\ framework = "django"
    /\ \E l \in {{}} \cup {{unit} : unit \in Units} :
           /\ l # peer.leaders
           /\ peer' = [peer EXCEPT !.leaders = l]
           /\ is_leader' = (ThisUnit \in l)
    /\ UNCHANGED <<databases, framework, config, secret, container, workload, status, last>>

\* the workload container is recreated from the image
DjangoContainerReplaced ==
    /\ framework = "django"
    /\ \E with_config \in BOOLEAN :
           /\ container # DjangoContainer(with_config)
           /\ container' = DjangoContainer(with_config)
    /\ UNCHANGED <<databases, peer, framework, config, secret, is_leader, workload, status,
                   last>>

----------------------------------------------------------------------------
(* The environment of the charm *)

\* Pebble in the Django workload container starts answering
PebbleUp ==
    /\ framework = "django"
    /\ ~container.can_connect
    /\ container' = [container EXCEPT !.can_connect = TRUE]
    /\ UNCHANGED <<databases, peer, framework, config, secret, is_leader, workload, status, last>>

\* Pebble stops answering (the files of the container stay)
PebbleDown ==
    /\ container.can_connect
    /\ container' = [container EXCEPT !.can_connect = FALSE]
    /\ UNCHANGED <<databases, peer, framework, config, secret, is_leader, workload, status, last>>

\* the workload container is recreated: its files, layers and services are gone
ContainerReplaced ==
    /\ container # FreshContainer
    /\ container' = FreshContainer
    /\ UNCHANGED <<databases, peer, framework, config, secret, is_leader, workload, status, last>>

\* leadership moves to or away from this unit
LeaderChanged ==
    /\ is_leader' = ~is_leader
    /\ UNCHANGED <<databases, peer, framework, config, secret, container, workload, status, last>>

\* the workload changes (a script appears on disk, a database comes up...):
\* the commands exit differently from now on
WorkloadChanged ==
    /\ \E w \in [migration : BOOLEAN, check : BOOLEAN] :
           /\ w # workload
           /\ workload' = w
    /\ UNCHANGED <<databases, peer, framework, config, secret, is_leader, container, status, last>>

Next ==
    \/ OnConfigChanged
    \/ OnFlaskAppPebbleReady
    \/ OnUpdateStatus
    \/ OnSecretStorageRelationCreated
    \/ OnSecretStorageRelationChanged
    \/ OnDatabaseEvent
    \/ OnRotateSecretKeyAction
    \/ RunOnceRun
    \/ PebbleUp
    \/ PebbleDown
    \/ ContainerReplaced
    \/ LeaderChanged
    \/ WorkloadChanged

Spec == Init /\ [][Next]_vars

\* update-status is delivered again and again for as long as the unit lives
SpecFair == Spec /\ WF_vars(OnUpdateStatus)

\* a Flask unit deployed with any of the webserver_* options set, up to its
\* first reconciliations
InitWebserver ==
    /\ framework = "flask"
    /\ config \in WebserverConfigs
    /\ secret = NoRelation
    /\ is_leader \in BOOLEAN
    /\ container = FreshContainer
    /\ workload \in [migration : BOOLEAN, check : BOOLEAN]
    /\ status = [unit |-> UnknownStatus, app |-> UnknownStatus]
    /\ last = Dispatched("none", <<>>, NoError)
    /\ peer = NoPeer
    /\ databases = NoRelationData

\* a Django application before its units join the secret-storage relation
InitSecretStorage ==
    /\ framework = "django"
    /\ config = [database_migration_script |-> None]
    /\ secret = NoRelation
    /\ is_leader = FALSE
    /\ container = FreshContainer
    /\ workload = [migration |-> TRUE, check |-> TRUE]
    /\ status = [unit |-> UnknownStatus, app |-> UnknownStatus]
    /\ last = Dispatched("none", <<>>, NoError)
    /\ peer = NoPeer
    /\ databases = NoRelationData

NextSecretStorage ==
    \/ SecretRelationCreated
    \/ SecretRelationChanged
    \/ LeaderElected
    \/ CharmUpgraded
    \/ SetSecretCalled
    \/ GetSecretCalled

SpecSecretStorage == InitSecretStorage /\ [][NextSecretStorage]_vars

\* a leader-elected unit whose secret storage holds a key generated earlier:
\* the operator rotates the key and Pebble comes and goes
EarlierKey == "key-0"

InitRotate ==
    /\ framework = "flask"
    /\ config \in Configs
    /\ secret = EarlierKey
    /\ is_leader \in BOOLEAN
    /\ container = FreshContainer
    /\ workload \in [migration : BOOLEAN, check : BOOLEAN]
    /\ status = [unit |-> UnknownStatus, app |-> UnknownStatus]
    /\ last = Dispatched("none", <<>>, NoError)
    /\ peer = NoPeer
    /\ databases = NoRelationData

NextRotate == OnFlaskAppPebbleReady \/ OnRotateSecretKeyAction \/ PebbleDown

SpecRotate == InitRotate /\ [][NextRotate]_vars

\* a leader unit with any configuration: the secret-storage relation is
\* created, Pebble answers
InitConfig ==
    /\ framework = "flask"
    /\ config \in UserConfigs
    /\ secret = NoRelation
    /\ is_leader = TRUE
    /\ container = FreshContainer
    /\ workload = [migration |-> TRUE, check |-> TRUE]
    /\ status = [unit |-> UnknownStatus, app |-> UnknownStatus]
    /\ last = Dispatched("none", <<>>, NoError)
    /\ peer = NoPeer
    /\ databases = NoRelationData

NextConfig == OnSecretStorageRelationCreated \/ OnFlaskAppPebbleReady

SpecConfig == InitConfig /\ [][NextConfig]_vars

\* a leader unit with an initialized secret storage whose database requirers
\* have any relation data: Pebble comes and goes, database events arrive
InitDatabases ==
    /\ framework = "flask"
    /\ config = [database_migration_script |-> None]
    /\ secret = EarlierKey
    /\ is_leader = TRUE
    /\ container = FreshContainer
    /\ workload = [migration |-> TRUE, check |-> TRUE]
    /\ status = [unit |-> UnknownStatus, app |-> UnknownStatus]
    /\ last = Dispatched("none", <<>>, NoError)
    /\ peer = NoPeer
    /\ databases \in DatabaseRequirers

NextDatabases == OnFlaskAppPebbleReady \/ OnDatabaseEvent \/ PebbleDown

SpecDatabases == InitDatabases /\ [][NextDatabases]_vars

\* the configurations from_charm rejects for one or two of the built-in
\* settings, with or without an option of the charm's own
InvalidConfigs ==
    {c \in UserConfigs :
        /\ DOMAIN c \subseteq {"database_migration_script", "flask_env",
                               "flask_preferred_url_scheme", "foo"}
        /\ from_charm(c, NoRelation, <<>>).raised # NoError}

\* a unit whose configuration fails validation: every event is dispatched to
\* it, Pebble and the leadership come and go
InitInvalid ==
    /\ framework = "flask"
    /\ config \in InvalidConfigs
    /\ secret = NoRelation
    /\ is_leader \in BOOLEAN
    /\ container = FreshContainer
    /\ workload \in [migration : BOOLEAN, check : BOOLEAN]
    /\ status = [unit |-> UnknownStatus, app |-> UnknownStatus]
    /\ last = Dispatched("none", <<>>, NoError)
    /\ peer = NoPeer
    /\ databases = NoRelationData

NextInvalid ==
    \/ OnFlaskAppPebbleReady
    \/ OnUpdateStatus
    \/ OnSecretStorageRelationCreated
    \/ OnSecretStorageRelationChanged
    \/ OnDatabaseEvent
    \/ OnRotateSecretKeyAction
    \/ PebbleDown
    \/ LeaderChanged

SpecInvalid == InitInvalid /\ [][NextInvalid]_vars

\* a Flask unit deployed with any of the values of database_migration_script
InitPath ==
    /\ framework = "flask"
    /\ config \in PathConfigs
    /\ secret = NoRelation
    /\ is_leader \in BOOLEAN
    /\ container = FreshContainer
    /\ workload \in [migration : BOOLEAN, check : BOOLEAN]
    /\ status = [unit |-> UnknownStatus, app |-> UnknownStatus]
    /\ last = Dispatched("none", <<>>, NoError)
    /\ peer = NoPeer
    /\ databases = NoRelationData

NextPath ==
    \/ OnFlaskAppPebbleReady
    \/ OnUpdateStatus
    \/ OnSecretStorageRelationCreated
    \/ PebbleDown
    \/ ContainerReplaced
    \/ LeaderChanged

SpecPath == InitPath /\ [][NextPath]_vars

\* a Django unit from its deployment on: the image with or without a
\* gunicorn.conf.py, the leadership anywhere
InitDjango ==
    /\ framework = "django"
    /\ config = [database_migration_script |-> None]
    /\ secret = NoRelation
    /\ is_leader = FALSE
    /\ container \in {DjangoContainer(with_config) : with_config \in BOOLEAN}
    /\ workload \in [migration : BOOLEAN, check : BOOLEAN]
    /\ status = [unit |-> UnknownStatus, app |-> UnknownStatus]
    /\ last = Dispatched("none", <<>>, NoError)
    /\ peer = NoPeer
    /\ databases = NoRelationData

NextDjango ==
    \/ OnDjangoConfigChanged
    \/ OnDjangoAppPebbleReady
    \/ OnDjangoUpdateStatus
    \/ OnDjangoSecretStorageRelationCreated
    \/ OnDjangoSecretStorageRelationChanged
    \/ OnDjangoDatabaseEvent
    \/ OnDjangoRotateSecretKeyAction
    \/ RemoteSecretRelationCreated
    \/ RemoteSecretRelationChanged
    \/ DjangoLeaderElected
    \/ DjangoContainerReplaced
    \/ PebbleDown
    \/ WorkloadChanged

SpecDjango == InitDjango /\ [][NextDjango]_vars

NextWebserver ==
    \/ OnSecretStorageRelationCreated
    \/ OnFlaskAppPebbleReady

SpecWebserver == InitWebserver /\ [][NextWebserver]_vars

----------------------------------------------------------------------------
(* Properties.  They read the records of the calls of the last dispatch.   *)

Runs == {last.runs[i] : i \in DOMAIN last.runs}
OnceRuns == {last.once[i] : i \in DOMAIN last.once}
OpsOf(r) == {r.ops[i] : i \in DOMAIN r.ops}
MigrationExecs(r) ==
    {i \in DOMAIN r.ops : r.ops[i][1] = "exec" /\ r.ops[i][2] = "migration"}

\* restart got as far as calling DatabaseMigration.run
RunCalled(r) == r.gate = "passed" /\ r.raised # WebserverCheckFailed

\* C1: once the persisted status is COMPLETED, a call of
\* DatabaseMigration.run or of RunOnce.run, whatever script or command it is
\* given, executes no command and leaves the status COMPLETED
C1_CompletedIsFinal ==
    /\ \A r \in Runs :
           RunCalled(r) /\ r.status_file_before = "COMPLETED"
           => /\ MigrationExecs(r) = {}
              /\ r.status_file_after = "COMPLETED"
              /\ r.completed_after = r.completed_before
    /\ \A o \in OnceRuns :
           o.status_before = "COMPLETED"
           => /\ o.ops = <<>>
              /\ o.status_after = "COMPLETED"
              /\ o.archive_after = o.archive_before

\* run was called with another script than the completed one
C1_Witness ==
    \E r \in Runs :
        /\ RunCalled(r)
        /\ r.status_file_before = "COMPLETED"
        /\ Truthy(r.script)
        /\ r.script # r.completed_before
        /\ ~r.exit0
        /\ r.status_file_after = "COMPLETED"

\* C2: run with a script configured and the status PENDING or FAILED executes
\* the script exactly once; exit 0 gives COMPLETED and a normal return, any
\* other exit gives FAILED and CharmConfigInvalidError
C2_RunOutcome ==
    \A r \in Runs :
        RunCalled(r) /\ Truthy(r.script) /\ r.status_file_before \in {Absent, "FAILED"}
        => /\ Cardinality(MigrationExecs(r)) = 1
           /\ \A i \in MigrationExecs(r) : r.ops[i] = OpExec("migration", r.script)
           /\ r.exit0 => r.status_file_after = "COMPLETED" /\ r.raised = NoError
           /\ ~r.exit0 => /\ r.status_file_after = "FAILED"
                          /\ r.raised = MigrationFailed(r.script)

\* a failed migration was run again and completed
C2_Witness ==
    \E r \in Runs :
        /\ RunCalled(r)
        /\ r.status_file_before = "FAILED"
        /\ r.status_file_after = "COMPLETED"
        /\ Cardinality(MigrationExecs(r)) = 1

\* C3: get_status (of DatabaseMigration and of RunOnce) is PENDING exactly
\* when the status file does not exist; the file holds COMPLETED or FAILED and
\* PENDING is never written to it
C3_StatusFile ==
    /\ get_status(container) = "PENDING" <=> ~Exists(container, StatusFile)
    /\ Exists(container, StatusFile)
       => Pull(container, StatusFile) \in {"COMPLETED", "FAILED"}
    /\ \A r \in Runs : r.status_file_after \in {Absent, "COMPLETED", "FAILED"}
    /\ RunOnce_get_status(container) = "PENDING"
       <=> ~Exists(container, RunOnceStateFile)
    /\ Exists(container, RunOnceStateFile)
       => Pull(container, RunOnceStateFile) \in {"COMPLETED", "FAILED"}

\* a failed run has just written the status file
C3_Witness ==
    /\ Exists(container, StatusFile)
    /\ get_status(container) = "FAILED"
    /\ \E r \in Runs : r.status_file_before = Absent /\ r.status_file_after = "FAILED"

IsBlocked(st) == Head(st) = "blocked"
Failed == FileOrAbsent(container, StatusFile) = "FAILED"
Completed == FileOrAbsent(container, StatusFile) = "COMPLETED"

\* everything the retry needs stays as it is: Pebble answers, both commands
\* exit 0 and a script is configured
Healthy ==
    /\ container.can_connect
    /\ workload.migration
    /\ workload.check
    /\ Truthy(config.database_migration_script)

C4_Retry ==
    \A r \in Runs :
        /\ RunCalled(r) /\ Truthy(r.script) /\ r.status_file_before = Absent /\ ~r.exit0
           => r.status_file_after = "FAILED" /\ IsBlocked(r.unit_set)
        /\ last.event = "update-status" /\ Truthy(r.script)
              /\ r.status_file_before = "FAILED" /\ r.exit0 /\ RunCalled(r)
           => /\ MigrationExecs(r) # {}
              /\ r.status_file_after = "COMPLETED"
              /\ r.unit_set = ActiveStatus

C5_Original ==
    \A r \in Runs :
        /\ r.completed_before # Absent /\ r.script # None
              /\ r.script # r.completed_before
           => IsConfigInvalid(r.raised) /\ MigrationExecs(r) = {}
        /\ r.completed_before # Absent
              /\ (r.script = None \/ r.script = r.completed_before)
           => r.raised # ScriptDrift(r.completed_before)

\* C5, amended: the same of the restarts that pass both gates
C5_DriftRejected ==
    \A r \in Runs :
        /\ r.gate = "passed" /\ r.completed_before # Absent /\ r.script # None
              /\ r.script # r.completed_before
           => IsConfigInvalid(r.raised) /\ MigrationExecs(r) = {}
        /\ r.completed_before # Absent
              /\ (r.script = None \/ r.script = r.completed_before)
           => r.raised # ScriptDrift(r.completed_before)

\* a restart has raised the drift error for a second script
C5_Witness ==
    \E r \in Runs :
        /\ r.gate = "passed"
        /\ r.completed_before = NormPath("migrate.sh")
        /\ r.script = NormPath("migrate-2.sh")
        /\ r.raised = ScriptDrift(r.completed_before)
        /\ MigrationExecs(r) = {}

\* C6: no restart that raises a configuration-invalid error has replanned
C6_ReplanOnlyAfterSuccess ==
    \A r \in Runs : IsConfigInvalid(r.raised) => OpReplan \notin OpsOf(r)

\* C7: a restart that stops at the connectivity or the readiness gate sets
\* neither the unit nor the application status to active
C7_NoActiveAtGate ==
    \A r \in Runs :
        r.gate # "passed" => r.unit_set # ActiveStatus /\ r.app_set # ActiveStatus

\* C8: a restart stopped by a gate raises nothing and does nothing in the
\* container: no operation, and files, layers, plan and services as before
C8_GateHasNoEffect ==
    \A r \in Runs :
        r.gate # "passed"
        => /\ r.raised = NoError
           /\ r.ops = <<>>
           /\ r.unchanged
           /\ r.status_file_after = r.status_file_before

\* a restart with a failed migration to run again was stopped by the
\* connectivity gate
C8_Witness ==
    \E r \in Runs :
        /\ r.gate = "connectivity"
        /\ r.status_file_before = "FAILED"
        /\ Truthy(r.script)
        /\ r.exit0
        /\ r.status_file_after = "FAILED"

\* C9: a CharmConfigInvalidError of restart does not leave the handler; the
\* unit status is blocked with its message, the application status is
\* written, to the same, exactly when the unit is the leader
C9_BlockedOnConfigInvalid ==
    \A r \in Runs :
        /\ IsConfigInvalid(r.raised)
           => /\ r.propagated = NoError
              /\ last.error = NoError
              /\ r.unit_set = BlockedStatus(Msg(r.raised))
              /\ r.leader => r.app_set = BlockedStatus(Msg(r.raised))
              /\ ~r.leader => r.app_set = NotWritten
        /\ ~r.leader => r.app_set = NotWritten

\* a non-leader has handled a configuration-invalid error
C9_Witness ==
    \E r \in Runs :
        /\ IsConfigInvalid(r.raised)
        /\ ~r.leader
        /\ status.unit = BlockedStatus(Msg(r.raised))
        /\ status.app # status.unit

\* the last dispatch ended with a restart blocked by a configuration-invalid error
EndedBlocked ==
    /\ last.runs # <<>>
    /\ IsConfigInvalid(last.runs[Len(last.runs)].raised)
    /\ IsBlocked(status.unit)

----------------------------------------------------------------------------
(* GunicornWebserver.update_config, read from the records of restart *)

\* restart got as far as calling update_config
UpdateConfigCalled(r) == r.gate = "passed"
UpdateConfigRaised(r) == r.raised = WebserverCheckFailed

ConfigChecks(r) ==
    {i \in DOMAIN r.ops : r.ops[i][1] = "exec" /\ r.ops[i][2] = "check-config"}
ReloadSignals(r) == {i \in DOMAIN r.ops : r.ops[i] = OpSignal}
ConfigPushes(r) == {i \in DOMAIN r.ops : r.ops[i] = OpPush(ConfigPath)}

\* C11: of two calls of update_config in a row with the same charm state,
\* environment and running flag, the first having succeeded, the second
\* executes no check-config and sends no reload signal
C11_Idempotent ==
    Len(last.runs) = 2
    => \E r1 \in {last.runs[1]}, r2 \in {last.runs[2]} :
           /\ UpdateConfigCalled(r1) /\ UpdateConfigCalled(r2)
           /\ ~UpdateConfigRaised(r1)
           /\ r2.settings = r1.settings
           /\ r2.environment = r1.environment
           /\ r2.running_before = r1.running_before
           /\ r2.config_before = r1.config_new
           => ConfigChecks(r2) = {} /\ ReloadSignals(r2) = {}

\* C12: update_config writes the configuration file only when the new
\* content differs from the content in the container
C12_WriteOnlyWhenDifferent ==
    \A r \in Runs :
        UpdateConfigCalled(r) /\ r.config_before = r.config_new
        => ConfigPushes(r) = {}

\* C13: when check-config exits non-zero, update_config raises
\* CharmConfigInvalidError and sends no reload signal, whether or not the
\* service was running
C13_CheckFailureRaises ==
    \A r \in Runs :
        ConfigChecks(r) # {} /\ ~r.check0
        => /\ UpdateConfigRaised(r)
           /\ IsConfigInvalid(r.raised)
           /\ ReloadSignals(r) = {}

\* check-config failed while the service was running
C13_Witness ==
    \E r \in Runs :
        /\ ConfigChecks(r) # {} /\ ~r.check0
        /\ r.running_before
        /\ IsConfigInvalid(r.raised)
        /\ IsBlocked(status.unit)

\* C14: update_config sends SIGHUP only when the content changed, the check
\* passed and the service was running, at most once in a call, and never
\* stops or starts the service
C14_ReloadOnlyOnChange ==
    \A r \in Runs : \A u \in {r.update_config[i] : i \in DOMAIN r.update_config} :
        /\ Cardinality({i \in DOMAIN u.ops : u.ops[i] = OpSignal}) <= 1
        /\ OpSignal \in {u.ops[i] : i \in DOMAIN u.ops}
           => /\ r.config_before # r.config_new
              /\ r.check0
              /\ r.running_before
        /\ u.services_unchanged

\* the last dispatch ended with check-config failing on the file that is
\* still in the container, and check-config would still fail on it
InvalidFileInPlace ==
    /\ last.runs # <<>>
    /\ \E r1 \in {last.runs[Len(last.runs)]} :
           /\ UpdateConfigRaised(r1)
           /\ ConfigPushes(r1) # {}
           /\ ConfigOnDisk(container) = r1.config_after
    /\ ~workload.check

\* the step is a dispatch that reconciles with the inputs of the failed one
ReconciledAgain ==
    /\ last'.runs # <<>>
    /\ \E r1 \in {last.runs[Len(last.runs)]}, r2 \in {last'.runs[1]} :
           /\ r2.gate = "passed"
           /\ r2.settings = r1.settings
           /\ r2.environment = r1.environment
           /\ r2.check0 = r1.check0
           /\ r2.config_before = r1.config_after

\* C15: after a reconciliation that wrote the file and whose check-config
\* failed, the next reconciliation with unchanged inputs executes
\* check-config again on that file, and the unit does not become active
\* while the file that failed the check is in place
C15_InvalidNeverActive ==
    [][InvalidFileInPlace
       => /\ ReconciledAgain
             => \E r2 \in {last'.runs[1]} :
                    /\ ConfigChecks(r2) # {}
                    /\ UpdateConfigRaised(r2)
                    /\ r2.config_after = r2.config_before
          /\ ConfigOnDisk(container') = ConfigOnDisk(container) /\ ~workload'.check
             => status'.unit # ActiveStatus]_vars

----------------------------------------------------------------------------
(* GunicornWebserver._config, read from the file update_config wrote *)

\* the lines of a file that set the option
LinesOf(file, option) ==
    {i \in DOMAIN file : "webserver_" \o file[i][1] = option}

\* C16: whatever subset of workers, threads, keepalive and timeout is set,
\* the generated file starts with the lines bind, chdir, accesslog, errorlog
\* and statsd_host, has no line for an option that is not set, and for each
\* option that is set exactly one line "name = value", value being the
\* configured integer (a duration in whole seconds)
C16_ConfigLines ==
    \A r \in Runs :
        UpdateConfigCalled(r)
        => /\ r.config_after = r.config_new
           /\ Len(r.config_after) >= 5
           /\ [i \in 1..5 |-> r.config_after[i][1]]
                  = <<"bind", "chdir", "accesslog", "errorlog", "statsd_host">>
           /\ \A i \in 6..Len(r.config_after) :
                  "webserver_" \o r.config_after[i][1] \in WebserverOptions
           /\ \A option \in WebserverOptions :
                  IF option \in DOMAIN config
                  THEN /\ Cardinality(LinesOf(r.config_after, option)) = 1
                       /\ \A i \in LinesOf(r.config_after, option) :
                              r.config_after[i][2] = IntText(config[option])
                  ELSE LinesOf(r.config_after, option) = {}

\* a file was written with keepalive set to more than a day, timeout set,
\* workers and threads not set
C16_Witness ==
    /\ DOMAIN config = {"database_migration_script", "webserver_keepalive",
                        "webserver_timeout"}
    /\ config.webserver_keepalive = 90061
    /\ \E r \in Runs :
           /\ UpdateConfigCalled(r)
           /\ Len(r.config_after) = 7
           /\ r.config_after[6] = <<"keepalive", "90061">>
    /\ ConfigOnDisk(container) # <<>>

----------------------------------------------------------------------------
(* Properties of the Django secret storage *)

StorageCalls == {last.storage[i] : i \in DOMAIN last.storage}

\* the relation exists and every declared key has a non-empty value
AllKeysSet(exists, declared, data) ==
    /\ exists
    /\ \A k \in declared : k \in DOMAIN data /\ data[k] # ""

\* C17: get_secret and set_secret raise RuntimeError when the storage is not
\* initialized (no peer relation, or a declared key without a value) and
\* leave the relation data as it was
C17_UninitializedRaises ==
    \A s \in StorageCalls :
        /\ last.event \in {"get_secret", "set_secret"}
        /\ ~AllKeysSet(s.exists, s.declared, s.data_before)
        => /\ last.error = RuntimeError
           /\ s.data_after = s.data_before
           /\ peer.data = s.data_before

\* set_secret was called with the relation there and one of two declared
\* keys without a value
C17_Witness ==
    /\ last.event = "set_secret"
    /\ last.error = RuntimeError
    /\ \E s \in StorageCalls :
           /\ s.exists
           /\ Cardinality(s.declared) = 2
           /\ Cardinality(DOMAIN s.data_before) = 1

\* C18: is_initialized is true exactly when the peer relation exists and
\* every declared key has a non-empty value in the application data; with
\* only some of several declared keys set it is false
C18_InitializedIffAllSet ==
    /\ \A s \in StorageCalls :
           s.is_initialized <=> AllKeysSet(s.exists, s.declared, s.data_before)
    /\ SecretStorage_is_initialized(peer)
           <=> AllKeysSet(peer.exists, peer.declared, peer.data)
    /\ \A s \in StorageCalls :
           (\E k \in s.declared : k \notin DOMAIN s.data_before) => ~s.is_initialized

\* a call found one of two declared keys set and the storage not initialized
C18_Witness ==
    \E s \in StorageCalls :
        /\ s.exists
        /\ Cardinality(s.declared) = 2
        /\ Cardinality(DOMAIN s.data_before) = 1
        /\ ~s.is_initialized

\* C19: at most one unit leads at a time; only a leader writes initial
\* values; the initial-value handler never overwrites a key that holds a
\* non-empty value; and a key gets its initial value at most once, also
\* when the leadership has changed
C19_InitialValuesOnce ==
    /\ Cardinality(peer.leaders) <= 1
    /\ \A s \in StorageCalls :
           /\ s.written # {} => s.led
           /\ \A k \in s.written :
                  /\ RelationGet(s.data_before, k) \in {None, ""}
                  /\ k \notin DOMAIN s.initial_writer
           /\ \A k \in DOMAIN s.data_before \ s.written :
                  s.data_before[k] # ""
                  => \/ s.data_after[k] = s.data_before[k]
                     \/ last.event = "set_secret"

\* a new leader handled relation-changed with the key its predecessor wrote
\* in place, and wrote nothing
C19_Witness ==
    /\ last.event = "secret-storage-relation-changed"
    /\ \E s \in StorageCalls :
           /\ s.led
           /\ s.written = {}
           /\ \E k \in DOMAIN s.initial_writer : s.initial_writer[k] # s.unit
           /\ s.data_after = s.data_before

----------------------------------------------------------------------------
(* The rotate-secret-key action *)

RotateSucceeded ==
    /\ last'.event = "rotate-secret-key"
    /\ last'.action = ActionResults("success")
    /\ container.can_connect
    /\ secret' # secret

C21_RestartWithNewSecret ==
    [][RotateSucceeded =>
          /\ Len(last'.runs) = 1
          /\ OpAddLayer \in {last'.runs[1].ops[i] : i \in DOMAIN last'.runs[1].ops}
          /\ container'.layer[1].services.flask.environment.FLASK_SECRET_KEY = secret']_vars

\* the interfaces whose relation data has endpoints, username and password
Complete(requirers) ==
    {i \in DOMAIN requirers :
        /\ requirers[i].relation_data # <<>>
        /\ {"endpoints", "username", "password"}
               \subseteq DOMAIN requirers[i].relation_data[1]
        /\ requirers[i].relation_data[1].endpoints # <<>>
        /\ requirers[i].relation_data[1].username # ""
        /\ requirers[i].relation_data[1].password # ""}

ConnectStringOf(i) == upper(i) \o "_DB_CONNECT_STRING"

\* C22: for every interface whose relation data has endpoints, username and
\* password, get_uris returns one entry <INTERFACE>_DB_CONNECT_STRING, which is
\* <interface>://<username>:<password>@<first endpoint>/<database>, the
\* database being the relation's field when present and the requirer's
\* default otherwise
C22_ConnectStrings ==
    \A r \in Runs :
        /\ Cardinality(DOMAIN r.database_uris) = Cardinality(Complete(databases))
        /\ \A i \in Complete(databases) :
               /\ ConnectStringOf(i) \in DOMAIN r.database_uris
               /\ \E data \in {databases[i].relation_data[1]} :
                      r.database_uris[ConnectStringOf(i)] =
                          i \o "://" \o data.username \o ":" \o data.password \o "@"
                            \o data.endpoints[1] \o "/"
                            \o (IF "database" \in DOMAIN data THEN data.database
                                ELSE databases[i].database)

\* the charm state held the URI of a relation with two endpoints and a
\* database name, and of a relation without a database name
C22_Witness ==
    \E r \in Runs :
    \E i, j \in Complete(databases) :
        /\ Len(databases[i].relation_data[1].endpoints) = 3
        /\ "database" \in DOMAIN databases[i].relation_data[1]
        /\ "database" \notin DOMAIN databases[j].relation_data[1]
        /\ {ConnectStringOf(i), ConnectStringOf(j)} \subseteq DOMAIN r.database_uris

C24_RedisWithoutCredentials ==
    \A r \in Runs :
        ( /\ "redis" \in DOMAIN databases
          /\ databases["redis"].relation_data # <<>>
          /\ DOMAIN databases["redis"].relation_data[1] = {"endpoints"}
          /\ databases["redis"].relation_data[1].endpoints # <<>> )
        => /\ "REDIS_DB_CONNECT_STRING" \in DOMAIN r.database_uris
           /\ r.database_uris["REDIS_DB_CONNECT_STRING"] =
                  "redis://" \o databases["redis"].relation_data[1].endpoints[1]

\* the kinds of keys of a configuration: framework-prefixed, webserver and,
\* for the rest of the options that are set, generic
PrefixedKeys(cfg) == {k \in DOMAIN cfg : startswith(k)}
WebserverKeys(cfg) == DOMAIN cfg \cap WebserverOptions
GenericKeys(cfg) ==
    DOMAIN cfg \ (PrefixedKeys(cfg) \cup WebserverKeys(cfg) \cup {"database_migration_script"})

\* C25: for every configuration of framework-prefixed, webserver and generic
\* keys, the state from_charm returns has an app_config with exactly the
\* generic keys and a flask_config with exactly the framework-prefixed keys,
\* and the two have no key in common
C25_ConfigPartition ==
    \A r \in Runs :
        /\ DOMAIN r.app_config = GenericKeys(config)
        /\ {"flask_" \o k : k \in DOMAIN r.flask_config} = PrefixedKeys(config)
        /\ DOMAIN r.app_config \cap DOMAIN r.flask_config = {}

\* the built-in setting b is set in the configuration
IsSet(b) == ("flask_" \o b) \in DOMAIN config

InvalidSettings ==
    {k \in PrefixedKeys(config) :
        \/ config[k].type = "str" /\ config[k].value \in {"", "tls"}
        \/ config[k].type = "int" /\ config[k].value <= 0}

\* C27: when several built-in settings are invalid at once, from_charm raises
\* one CharmConfigInvalidError whose message names each of them; when all
\* are valid it raises nothing
C27_AllInvalidNamed ==
    last.event = "pebble-ready" =>
        IF InvalidSettings = {}
        THEN /\ last.runs # <<>>
             /\ status.unit[1] # "blocked"
        ELSE /\ last.runs = <<>>
             /\ SubSeq(status.unit, 1, 2) = <<"blocked", "invalid configuration:">>
             /\ Len(status.unit) = 2 + Cardinality(InvalidSettings)
             /\ {status.unit[i] : i \in 3..Len(status.unit)} = InvalidSettings

\* three settings were invalid at once
C27_Witness ==
    /\ last.event = "pebble-ready"
    /\ Cardinality(InvalidSettings) >= 3
    /\ status.unit[1] = "blocked"

\* the text the environment has for a setting
TextOf(v) ==
    CASE v.type = "str" -> v.value
      [] v.type = "bool" -> IF v.value THEN "true" ELSE "false"
      [] v.type = "int" -> ToString(v.value)

DefaultConfig ==
    [database_migration_script |-> None,
     flask_preferred_url_scheme |-> [type |-> "str", value |-> "HTTPS"]]

\* C28: the layer restart adds has one service, flask, with override replace,
\* startup enabled and the gunicorn command; its environment has, as
\* FLASK_<UPPER_KEY>, the text of every str setting and the JSON of every
\* boolean and integer setting, and with the default configuration it is
\* FLASK_PREFERRED_URL_SCHEME and FLASK_SECRET_KEY and nothing else
C28_Layer ==
    \A r \in Runs :
        OpAddLayer \in OpsOf(r) =>
            /\ Len(container.layer) = 1
            /\ DOMAIN container.layer[1].services = {"flask"}
            /\ \E service \in {container.layer[1].services["flask"]} :
                   /\ service.override = "replace"
                   /\ service.startup = "enabled"
                   /\ service.command =
                          "python3 -m gunicorn -c /flask/gunicorn.conf.py app:app"
                   /\ service.environment = r.environment
                   /\ \A k \in DOMAIN r.flask_config :
                          service.environment["FLASK_" \o upper(k)] = TextOf(r.flask_config[k])
                   /\ \A k \in DOMAIN r.app_config \ builtin_flask_config :
                          service.environment["FLASK_" \o upper(k)] = TextOf(r.app_config[k])
                   /\ config = DefaultConfig =>
                          /\ DOMAIN service.environment =
                                 {"FLASK_PREFERRED_URL_SCHEME", "FLASK_SECRET_KEY"}
                          /\ service.environment["FLASK_PREFERRED_URL_SCHEME"] = "HTTPS"
                          /\ service.environment["FLASK_SECRET_KEY"] = secret

\* restart added the layer with a str, a boolean and an integer setting, one
\* of them an option of the charm's own
C28_Witness ==
    \E r \in Runs :
        /\ OpAddLayer \in OpsOf(r)
        /\ {"env", "debug", "permanent_session_lifetime"} \subseteq DOMAIN r.flask_config
        /\ "foo" \in DOMAIN r.app_config
        /\ r.app_config["foo"].type = "int"
        /\ container.layer[1].services["flask"].environment["FLASK_FOO"] = "7"

\* restart added the layer with the default configuration
C28_DefaultWitness ==
    \E r \in Runs : OpAddLayer \in OpsOf(r) /\ config = DefaultConfig

\* C29: the property flask_secret_key of the charm state raises RuntimeError,
\* and nothing else, exactly when the state was built while the secret
\* storage was not initialized; when is_secret_storage_ready is true it
\* returns the stored secret, so that a restart that passed the readiness gate
\* does not raise it
C29_SecretKeyAccessor ==
    \A r \in Runs :
        /\ r.flask_secret_key.raised # NoError <=> ~is_initialized(secret)
        /\ r.flask_secret_key.raised \in {NoError, SecretKeyNotReady}
        /\ r.is_secret_storage_ready
               => r.flask_secret_key = [raised |-> NoError, value |-> secret]
        /\ r.gate = "passed" => r.raised # SecretKeyNotReady

\* a state was built before the storage was initialized, and restart stopped
\* at the readiness gate
C29_Witness ==
    \E r \in Runs :
        /\ ~r.is_secret_storage_ready
        /\ r.gate = "readiness"
        /\ r.flask_secret_key.raised = SecretKeyNotReady

\* C30: a reconciliation (one call of restart) executes the migration script
\* at most once, and after an execution that failed it executes no further
\* command in that call; a migration status is written only in the step of an
\* event's dispatch, by a reconciliation of that dispatch that executed the
\* script once
C30_NoRetryWithinRun ==
    [][/\ \A r \in {last'.runs[i] : i \in DOMAIN last'.runs} :
              /\ Cardinality(MigrationExecs(r)) <= 1
              /\ \A i \in MigrationExecs(r) :
                     ~r.exit0 => \A j \in DOMAIN r.ops : j > i => r.ops[j][1] # "exec"
       /\ /\ FileOrAbsent(container', StatusFile) # FileOrAbsent(container, StatusFile)
          /\ FileOrAbsent(container', StatusFile) # Absent
          => /\ last'.event # "none"
             /\ \E i \in DOMAIN last'.runs :
                    /\ Cardinality(MigrationExecs(last'.runs[i])) = 1
                    /\ last'.runs[i].status_file_after = FileOrAbsent(container', StatusFile)
                    /\ last'.runs[i].status_file_after # last'.runs[i].status_file_before
      ]_vars

\* a later update-status has run a failed script again, once, and it failed again
C30_Witness ==
    /\ last.event = "update-status"
    /\ \E r \in Runs :
           /\ r.status_file_before = "FAILED"
           /\ ~r.exit0
           /\ Cardinality(MigrationExecs(r)) = 1
           /\ r.status_file_after = "FAILED"

\* C31: after every step the completed-script marker exists exactly when the
\* persisted status is COMPLETED; a call of run that executed the script with
\* exit 0 leaves the marker holding that script, a call whose execution
\* failed leaves the marker as it was; and a marker that exists is the same
\* after every step that does not replace the container
C31_MarkerIffCompleted ==
    [][/\ Exists(container', CompletedScriptFile)
              <=> FileOrAbsent(container', StatusFile) = "COMPLETED"
       /\ \A i \in DOMAIN last'.runs :
              /\ MigrationExecs(last'.runs[i]) # {} /\ last'.runs[i].exit0
                 => last'.runs[i].completed_after = last'.runs[i].script
              /\ MigrationExecs(last'.runs[i]) # {} /\ ~last'.runs[i].exit0
                 => last'.runs[i].completed_after = last'.runs[i].completed_before
       /\ Exists(container, CompletedScriptFile) /\ container' # FreshContainer
          => FileOrAbsent(container', CompletedScriptFile)
                 = FileOrAbsent(container, CompletedScriptFile)
      ]_vars

\* the script completed and the marker holds it; a later call with another
\* script configured has left it alone
C31_Witness ==
    /\ Exists(container, CompletedScriptFile)
    /\ \E r \in Runs :
           /\ RunCalled(r)
           /\ r.completed_before # Absent
           /\ Truthy(r.script)
           /\ r.script # r.completed_before
           /\ r.completed_after = r.completed_before

\* the container was replaced after a migration completed in the previous one:
\* the last dispatch left COMPLETED, the container has no status file
ReplacedAfterCompletion ==
    /\ ~Exists(container, StatusFile)
    /\ \E r \in Runs : r.status_file_after = "COMPLETED"

\* C33 as stated: a replaced container has neither state file and get_status
\* is PENDING; every reconciliation that finds the container so, with a script
\* configured, executes the script; without a replacement COMPLETED stays
C33_Original ==
    [][/\ container.layer # NoLayer /\ container'.layer = NoLayer
          => /\ get_status(container') = "PENDING"
             /\ ~Exists(container', CompletedScriptFile)
       /\ ReplacedAfterCompletion
          => \A i \in DOMAIN last'.runs :
                 Truthy(last'.runs[i].script)
                     /\ last'.runs[i].status_file_before = Absent
                 => MigrationExecs(last'.runs[i]) # {}
       /\ get_status(container) = "COMPLETED" /\ container'.layer # NoLayer
          => get_status(container') = "COMPLETED"
      ]_vars

\* C33, amended: the same, for the reconciliations that get as far as calling
\* DatabaseMigration.run (Pebble answers, the secret storage is ready and the
\* webserver configuration check passes)
C33_ReplacedRunsAgain ==
    [][/\ container.layer # NoLayer /\ container'.layer = NoLayer
          => /\ get_status(container') = "PENDING"
             /\ ~Exists(container', CompletedScriptFile)
       /\ ReplacedAfterCompletion
          => \A i \in DOMAIN last'.runs :
                 RunCalled(last'.runs[i]) /\ Truthy(last'.runs[i].script)
                     /\ last'.runs[i].status_file_before = Absent
                 => MigrationExecs(last'.runs[i]) # {}
       /\ get_status(container) = "COMPLETED" /\ container'.layer # NoLayer
          => get_status(container') = "COMPLETED"
      ]_vars

\* the migration completed, the container was replaced and get_status is
\* PENDING again
C33_Witness ==
    /\ container = FreshContainer
    /\ get_status(container) = "PENDING"
    /\ \E r \in Runs : MigrationExecs(r) # {} /\ r.status_file_after = "COMPLETED"

\* C34: a dispatch to a charm whose configuration fails validation leaves the
\* files, layers, plan and services of the container as they were, calls
\* restart not once, and leaves the unit status blocked with the message of
\* the validation (the application status too on the leader, untouched on
\* another unit); no status is active after it
C34_InvalidConfigRegistersNothing ==
    [][(/\ from_charm(config', secret, get_uris(databases)).raised # NoError
        /\ last' # last \/ status' # status \/ secret' # secret)
       => /\ container'.fs = container.fs
          /\ container'.layer = container.layer
          /\ container'.plan = container.plan
          /\ container'.running = container.running
          /\ last'.runs = <<>>
          /\ status'.unit = BlockedStatus(
                 Msg(from_charm(config', secret, get_uris(databases)).raised))
          /\ status'.app = IF is_leader THEN status'.unit ELSE status.app
          /\ ActiveStatus \notin {status'.unit, status'.app}
      ]_vars

\* a rotate-secret-key action, with the secret storage initialized and Pebble
\* answering, was dispatched to the leader with an invalid configuration
C34_Witness ==
    /\ last.event = "rotate-secret-key"
    /\ is_leader
    /\ is_initialized(secret)
    /\ container.can_connect
    /\ from_charm(config, secret, get_uris(databases)).raised # NoError
    /\ status.unit[1] = "blocked"
    /\ status.app = status.unit

\* the places in the operations of a call where update_config acted
WebserverOps(r) ==
    {i \in DOMAIN r.ops :
        r.ops[i] \in {OpPush(ConfigPath), OpExec("check-config", ""), OpSignal}}

\* C35: in every call of restart each operation of update_config comes before
\* the execution of the migration script and the check-config has been
\* executed before it; a call whose check-config failed executes no migration
\* script and leaves the status file alone; a call whose migration script
\* failed has no replan and leaves the status file holding FAILED, and the
\* dispatch that made it leaves the plan and the services as they were
C35_WebserverBeforeMigration ==
    [][\A n \in DOMAIN last'.runs :
           /\ \A i \in MigrationExecs(last'.runs[n]) :
                  /\ \A j \in WebserverOps(last'.runs[n]) : j < i
                  /\ \E j \in 1..(i - 1) :
                         last'.runs[n].ops[j] = OpExec("check-config", "")
           /\ last'.runs[n].raised = WebserverCheckFailed
              => /\ MigrationExecs(last'.runs[n]) = {}
                 /\ last'.runs[n].status_file_after = last'.runs[n].status_file_before
           /\ MigrationExecs(last'.runs[n]) # {} /\ ~last'.runs[n].exit0
              => /\ OpReplan \notin OpsOf(last'.runs[n])
                 /\ last'.runs[n].status_file_after = "FAILED"
                 /\ Len(last'.runs) = 1 /\ container'.can_connect
                    => /\ container'.plan = container.plan
                       /\ container'.running = container.running
      ]_vars

\* a call whose check-config failed although the script would have exited 0,
\* with the migration still pending after it
C35_Witness ==
    \E r \in Runs :
        /\ r.raised = WebserverCheckFailed
        /\ Truthy(r.script)
        /\ r.exit0
        /\ r.status_file_before = Absent
        /\ r.status_file_after = Absent

\* C38 as stated: after a migration completed with script S, every restart
\* with a script set that differs from S ends blocked and leaves the status
\* file and the marker as they were; every restart with S, or no script,
\* configured raises no drift error and ends active
C38_Original ==
    \A r \in Runs :
        /\ r.completed_before # Absent /\ r.script # None
              /\ r.script # r.completed_before
           => /\ IsBlocked(r.unit_set)
              /\ r.status_file_after = r.status_file_before
              /\ r.completed_after = r.completed_before
        /\ r.completed_before # Absent
              /\ (r.script = None \/ r.script = r.completed_before)
           => /\ r.raised # ScriptDrift(r.completed_before)
              /\ r.unit_set = ActiveStatus

\* C38, amended: the same of the restarts that pass both gates, the second
\* one ending active when the webserver configuration check passes and
\* blocked when it fails
C38_DriftBlocksUntilReverted ==
    \A r \in Runs :
        /\ r.completed_before # Absent /\ r.script # None
              /\ r.script # r.completed_before
           => /\ r.gate = "passed" => IsBlocked(r.unit_set)
              /\ r.status_file_after = r.status_file_before
              /\ r.completed_after = r.completed_before
        /\ r.completed_before # Absent
              /\ (r.script = None \/ r.script = r.completed_before)
           => /\ r.raised # ScriptDrift(r.completed_before)
              /\ r.gate = "passed" /\ r.check0 => r.unit_set = ActiveStatus
              /\ r.gate = "passed" /\ ~r.check0 => IsBlocked(r.unit_set)

\* with another script configured since an earlier dispatch, a restart has
\* ended blocked on the drift error, the status and the marker as before
C38_Witness ==
    /\ last.event = "pebble-ready"
    /\ \E r \in Runs :
           /\ r.gate = "passed"
           /\ r.completed_before = NormPath("migrate.sh")
           /\ r.script = NormPath("migrate-2.sh")
           /\ r.raised = ScriptDrift(r.completed_before)
           /\ IsBlocked(r.unit_set)
           /\ r.status_file_after = "COMPLETED"
           /\ r.completed_after = r.completed_before

\* the normalized path of the configured script, as characters
ConfiguredPath ==
    normpath(PathJoin(Characters(FLASK_APP_DIR), Characters(config.database_migration_script)))

\* C39: after a dispatch, a script whose normalized path is not inside
\* /flask/app (the paths into a sibling directory such as /flask/app2
\* included) has been rejected, the unit blocked on "database_migration_script
\* is not inside /flask/app" and no observer run; a script whose normalized
\* path is inside it has been accepted and every restart was given the
\* normalized absolute path
C39_RejectsOutsideAppDir ==
    last.event # "none" =>
        IF InsideByComponents(ConfiguredPath)
        THEN /\ status.unit # BlockedStatus(Msg(NotInsideAppDir))
             /\ last.event = "pebble-ready" => Runs # {}
             /\ \A r \in Runs : r.script = Text(ConfiguredPath)
        ELSE /\ status.unit = BlockedStatus(Msg(NotInsideAppDir))
             /\ Runs = {}

\* the calls of reconcile a dispatch made, as last records them
ReconcilesOf(l) ==
    IF "reconciles" \in DOMAIN l THEN {l.reconciles[i] : i \in DOMAIN l.reconciles} ELSE {}

\* the operations of the migration and of the webserver apply
DjangoWorkOps(r) ==
    {r.ops[i] : i \in DOMAIN r.ops} \cap
        ({OpExec("run-once", JsonDumps(MigrateCommand)),
          OpExec("check-config", service_name), OpAddLayer, OpSignal, OpReplan})

\* every declared database has well-formed relation data
AllDatabasesReady(database_requirers) ==
    \A i \in DOMAIN database_requirers :
        /\ database_requirers[i].relation_data # <<>>
        /\ WellFormed(database_requirers[i].relation_data[1])

\* C32 as stated: a reconcile on the leader in which the migration failed or
\* the webserver apply failed leaves the application status blocked, the same
\* as the unit status
C32_LeaderBlocksApplication ==
    \A r \in ReconcilesOf(last) :
        r.leader /\ (r.migration = "failed" \/ r.apply = "failed")
        => /\ IsBlocked(status.unit)
           /\ status.app = status.unit

\* C36: reconcile tests the connectivity of the container, then the readiness
\* of every declared database, then the initialization of the secret storage;
\* at the first test that fails it sets the unit status to waiting and
\* returns: no migration command, no check-config, no layer, no signal, no
\* replan, the container as it was
C36_GatesInOrder ==
    [][\A r \in ReconcilesOf(last') :
           last' # last =>
           /\ r.gate = "connectivity" <=> ~container'.can_connect
           /\ r.gate = "databases"
                 <=> container'.can_connect /\ ~AllDatabasesReady(databases')
           /\ r.gate = "secrets"
                 <=> /\ container'.can_connect /\ AllDatabasesReady(databases')
                     /\ ~(peer'.exists /\ \A k \in peer'.declared : k \in DOMAIN peer'.data)
           /\ r.gate # "passed"
                 => /\ Head(status'.unit) = "waiting"
                    /\ DjangoWorkOps(r) = {}
                    /\ r.ops = <<>>
                    /\ container' = [container EXCEPT !.can_connect = container'.can_connect]
      ]_vars

\* the databases are ready, the secret storage is not: a reconcile has
\* returned at the third test with the unit waiting
C36_Witness ==
    /\ container.can_connect
    /\ AllDatabasesReady(databases)
    /\ \E r \in ReconcilesOf(last) :
           /\ r.gate = "secrets"
           /\ status.unit = WaitingStatus("Waiting for secret store initialization")

\* C37: a reconcile in which the migration command failed leaves the unit
\* blocked and does nothing of the webserver apply (no check-config, no
\* layer, no signal, no replan: layers, plan and services as before); and
\* the unit status becomes active only in a reconcile in which the
\* migration did not fail and the apply went through to the replan
C37_FailedMigrationStopsReconcile ==
    [][/\ \A r \in ReconcilesOf(last') :
              last' # last /\ r.migration = "failed"
              => /\ ~workload.migration
                 /\ RunOnce_get_status(container') = "FAILED"
                 /\ IsBlocked(status'.unit)
                 /\ DjangoWorkOps(r) = {OpExec("run-once", JsonDumps(MigrateCommand))}
                 /\ container'.layer = container.layer
                 /\ container'.plan = container.plan
                 /\ container'.running = container.running
       /\ status'.unit = ActiveStatus /\ status.unit # ActiveStatus
              => \E r \in ReconcilesOf(last') :
                     /\ r.migration = "ok"
                     /\ RunOnce_get_status(container') = "COMPLETED"
                     /\ r.apply = "applied"
                     /\ workload.check
                     /\ {OpExec("check-config", service_name), OpAddLayer, OpReplan}
                            \subseteq DjangoWorkOps(r)
                     /\ container'.plan = container'.layer
                     /\ container'.running
      ]_vars

\* the migration command has failed in the last reconcile: the unit is
\* blocked on it and the plan is still the one of the image
C37_Witness ==
    /\ \E r \in ReconcilesOf(last) :
           /\ r.migration = "failed"
           /\ r.apply = "not-called"
    /\ status.unit = DjangoMigrationFailed
    /\ RunOnce_get_status(container) = "FAILED"
    /\ container.plan = <<ImageLayer>>

\* C40: no step of the rotate-secret-key action (on the leader or not), of a
\* secret-storage relation event or of anything else takes a declared key
\* that has a value out of the relation data or empties it: once
\* is_initialized is true it stays true
C40_StaysInitialized ==
    [][/\ \A k \in peer.declared :
              Truthy(RelationGet(peer.data, k)) => Truthy(RelationGet(peer'.data, k))
       /\ peer.exists => peer'.exists
       /\ SecretStorage_is_initialized(peer) => SecretStorage_is_initialized(peer')
      ]_vars

\* the leader has rotated the key of an initialized storage
C40_Witness ==
    /\ last.event = "rotate-secret-key"
    /\ last.action = ActionResults("success")
    /\ is_leader
    /\ SecretStorage_is_initialized(peer)

====
